---- MODULE Spec2Model ----
(***************************************************************************)
(* pyutils.proc: a Task owns one spawned OS process (subprocess.Popen),    *)
(* waits for it with an optional timeout, kills its process tree (psutil)  *)
(* on timeout or failure and freezes a CompletedProcess record.            *)
(*                                                                         *)
(* Optional values (Python's None) are sequences of length at most one:    *)
(* None is <<>> and a present value x is <<x>>.  Strings are sequences of  *)
(* characters, so the empty string "" is <<>> and a present empty string   *)
(* is << <<>> >>.                                                          *)
(***************************************************************************)
EXTENDS Integers, Sequences, FiniteSets, TLC

\* Bounds of the model.
MaxProcs == 2
MaxRuns == 2
MaxLen == 2
MaxRss == 2
MaxSamples == 2
MaxText == 4
MaxFiles == 3
MaxTasks == 2
Threads == {1, 2}

None == <<>>
Some(x) == <<x>>

\* Characters a process can write; " " stands for any whitespace character.
Chars == {"a", " "}
Whitespace == {" "}
Str == UNION {[1..n -> Chars] : n \in 0..MaxLen}

\* What a process of the life-cycle specification may write to a stream: nothing, or
\* a line ("a" and its line end).
LifeOutputs == {<<>>, <<"a", " ">>}

\* Exit statuses of a process that exits on its own.
ExitCodes == {0, 1}
Signals == {"SIGKILL", "SIGTERM"}
OutputAction == {"PRINT", "DISCARD", "STORE"}
\* Caller messages handed to raise_if_failed: None, "" and "m".
Messages == {None, Some(<<>>), Some(<<"m">>)}

\* Popen.returncode of a process ended by a signal is the negated signal number.
signal_returncode(sig) ==
    IF sig = "SIGKILL" THEN -9 ELSE -15

\* Python truthiness of an optional string: neither None nor "".
Truthy(o) ==
    o # None /\ o[1] # <<>>

RECURSIVE lstrip(_)
lstrip(s) ==
    IF s # <<>> /\ Head(s) \in Whitespace THEN lstrip(Tail(s)) ELSE s

RECURSIVE rstrip(_)
rstrip(s) ==
    IF s # <<>> /\ s[Len(s)] \in Whitespace
    THEN rstrip(SubSeq(s, 1, Len(s) - 1))
    ELSE s

\* str.strip(): both ends.
strip(s) ==
    rstrip(lstrip(s))

\* "\n".join(lines)
RECURSIVE join(_)
join(lines) ==
    IF lines = <<>> THEN <<>>
    ELSE IF Len(lines) = 1 THEN lines[1]
    ELSE lines[1] \o <<"\n">> \o join(Tail(lines))

VARIABLES
    procs,          \* OS process table: pid -> [st, ppid, origin]; ppid 0 is this program,
                    \* -1 is init; origin is the Popen's process it descends from
    process,        \* Task._process: None or Some(pid of the Popen)
    pstatus,        \* exit status the OS holds for the Popen's process (valid once it left "run")
    pipe_out,       \* what the Popen's process wrote to its stdout pipe (STORE only)
    pipe_err,       \* what the Popen's process wrote to its stderr pipe (STORE only)
    completed,      \* Task._completed: None or Some([returncode, stdout, stderr])
    output_action,  \* Task.output_action
    pc,             \* position of the thread inside run()/wait(): "idle", "communicate", "async_finally"
    op,             \* the call that thread is in: "", "run" or "wait"
    wtimeout,       \* whether that call was given a timeout
    thread,         \* "caller", or "bg" for the thread of run_async
    exit_handler,   \* whether the latest run_async was given an exit handler
    bgres,          \* outcome of run() inside the background thread
    nruns,          \* run() / run_async() calls so far
    last,           \* the call that finished in the latest step, NoCall when none did
    handler_calls,  \* invocations of the exit handler by the latest run_async
    rusage,         \* Task.rusage: None or Some(ru_maxrss of the usage record)
    popen_rusage,   \* the rusage attribute wait_impl sets on Task._process, None if unset
    maxrss,         \* peak resident set size the OS reports for the Popen's process, in its unit
    reapable,       \* whether os.wait4 finds the child (FALSE: it raises ChildProcessError)
    platform,       \* platform.system()
    bpc,            \* position of Benchmark.run: "idle", "task_run", "in_run", "set_event",
                    \* "task_wait", "in_wait", "check"
    btimeout,       \* whether Benchmark.run was given a timeout (None otherwise)
    wd,             \* the watchdog thread: "idle", "waiting", "expired", "flagged", "killed", "passed"
    event,          \* Benchmark._task_completed_event
    timeout_occurred, \* Benchmark._timeout_occurred
    max_memory,     \* Benchmark._max_memory
    blast,          \* outcome of the latest Benchmark.run
    epc,            \* position of EnergyProfiler.run: "idle", "starting", "threads",
                    \* "task_run", "in_run", "joining", "stopping"
    eidx,           \* the probe the loop of _start_probes, of join or of _stop_probes is at
    eerr,           \* the error self._task.run raised inside EnergyProfiler.run, "nil" if none
    started,        \* probes whose start() has returned in this run
    stopped,        \* probes whose stop() has been called in this run
    samples,        \* EnergyProfiler._samples: probe -> None (no entry) or Some(records)
    polled,         \* probe -> poll() calls since its start()
    thr,            \* probe -> its polling thread: "none", "test", "sleep", "polled", "done"
    stop_ret,       \* what stop() returned in the latest step, NoStop when none did
    elast,          \* outcome of the latest EnergyProfiler.run
    score_ret,      \* outcome of the latest EnergyProfiler.score call
    interval,       \* probe.interval of the polled probe, in milliseconds
    now_ns,         \* perf_counter_ns(), counted from the start timestamp of the probe
    start_ns,       \* _poll_probe: start_ns
    cur_ns,         \* _poll_probe: cur_ns
    sleep_ns,       \* _poll_probe: sleep_ns of the latest turn of the loop
    proc_ns,        \* time the latest turn of the loop took after it read the clock
    done_ns,        \* the time at which the polled task becomes completed
    args,           \* the arguments of the latest call of a function of the library
    ret,            \* what that call returned or raised
    euid,           \* os.geteuid() of this program: 0 is root
    interp,         \* this program: "running" or "exited"
    atexit_funcs,   \* the number of functions registered with atexit
    pt_state,       \* the PowertopProbe: "none", "constructed", "starting", "started"
    pt_energy_task, \* PowertopProbe._energy_task is set
    pt_pids,        \* PowertopProbe._pids: None or Some(set of ids)
    report_dir,     \* PowertopProbe._report_dir on disk: "none", "present", "removed"
    reports,        \* the number of report files in the directory
    powertop,       \* the powertop process: "none", "running", "killed"
    pm_runs,        \* the number of runs the PowermetricsProbe has started
    pm_pc,          \* the PowermetricsProbe: "idle", "started", "stopping" (stop waits)
    pm_samples,     \* PowermetricsProbe._samples: each sample is the run whose output it is
    pm_event,       \* PowermetricsProbe._energy_task_event is set
    pm_helper,      \* per run, its powermetrics process: "none", "running", "terminated", "killed"
    pm_out,         \* per run, the number of unread sample blocks in the pipe of its process
    pm_thread,      \* per run, its _parse_profiler thread: "none", "clear", "read", "comm", "done"
    pm_pipe,        \* per run, the run whose pipe the loop of its thread reads (0: none yet)
    ALL,            \* Task._ALL
    completed_tasks, \* the tasks whose completed is true
    ntasks,         \* the number of Task objects constructed
    task_proc,      \* per task, its process: "none" (never spawned), "running", "exited"
    reg_op          \* per thread, the registry operation it is in

vars ==
    <<procs, process, pstatus, pipe_out, pipe_err, completed, output_action, pc, op,
      wtimeout, thread, exit_handler, bgres, nruns, last, handler_calls, rusage,
      popen_rusage, maxrss, reapable, platform, bpc, btimeout, wd, event,
      timeout_occurred, max_memory, blast, epc, eidx, eerr, started, stopped, samples,
      polled, thr, stop_ret, elast, score_ret, interval, now_ns, start_ns, cur_ns,
      sleep_ns, proc_ns, done_ns, args, ret, euid, interp, atexit_funcs, pt_state,
      pt_energy_task, pt_pids, report_dir, reports, powertop, pm_runs, pm_pc, pm_samples,
      pm_event, pm_helper, pm_out, pm_thread, pm_pipe, ALL, completed_tasks, ntasks,
      task_proc, reg_op>>

taskState == <<process, completed, output_action, rusage, popen_rusage>>
envState == <<maxrss, reapable, platform>>
benchState == <<bpc, btimeout, wd, event, timeout_occurred, max_memory, blast>>
\* What the operations of a Task used on its own leave alone.
profState == <<epc, eidx, eerr, started, stopped, samples, polled, thr, stop_ret, elast>>
pollState == <<score_ret, interval, now_ns, start_ns, cur_ns, sleep_ns, proc_ns, done_ns>>
powertopState == <<atexit_funcs, pt_state, pt_energy_task, pt_pids, report_dir, reports, powertop>>
powermetricsState ==
    <<pm_runs, pm_pc, pm_samples, pm_event, pm_helper, pm_out, pm_thread, pm_pipe>>
regState == <<ALL, completed_tasks, ntasks, task_proc, reg_op>>
sysState == <<euid, interp, powertopState, powermetricsState, regState>>
libState == <<args, ret, sysState>>
extState == <<envState, benchState, profState, pollState, libState>>
osState == <<procs, pstatus, pipe_out, pipe_err>>
ctlState == <<pc, op, wtimeout, thread, exit_handler, bgres, handler_calls>>

\* The record of a finished call: its result ("returned" or "raised"), its error, what
\* ended its wait ("exit", "timeout", "failure"; "" without a wait), the number of
\* signals it delivered, and its arguments where a claim reads them.
Result(o, r, e, w, n) ==
    [op |-> o, res |-> r, err |-> e, why |-> w, sent |-> n, children |-> FALSE,
     msg |-> <<>>, ensure_output |-> FALSE, message |-> None]

NoCall == Result("", "returned", "nil", "", 0)

\* The outcome of Benchmark.run: "" while none, "returned" or "raised" with the error.
BenchResult(r, e) ==
    [res |-> r, err |-> e]

NoBench == BenchResult("", "nil")

\* The probes attached to the EnergyProfiler, in the order of self.probes.
Probes == {1, 2}

\* What stop() returned on a probe: a float (v holds it alone), or a sequence of
\* floats (v is the sequence).
StopReturn(p, k, v) ==
    [probe |-> p, kind |-> k, v |-> v]

NoStop == StopReturn(0, "", <<>>)

\* EnergySample(power, interval)
EnergySample(pw, iv) ==
    [power |-> pw, interval |-> iv]

\* The outcome of EnergyProfiler.score(probe): the score is the fraction num / den.
ScoreReturn(p, r, e, n, d) ==
    [probe |-> p, res |-> r, err |-> e, num |-> n, den |-> d]

NoScore == ScoreReturn(0, "", "nil", 0, 1)

\* ---------------------------------------------------------------- Task properties

name == "proc"

pid ==
    process

stdout ==
    IF completed # None THEN completed[1].stdout ELSE None

stderr ==
    IF completed # None THEN completed[1].stderr ELSE None

is_completed ==
    completed # None

exit_code ==
    IF completed # None THEN completed[1].returncode ELSE None

\* ---------------------------------------------------------------- process tree

Running(ps, p) ==
    p \in DOMAIN ps /\ ps[p].st = "run"

\* A pid psutil can still open: running, or exited and not yet reaped.
Exists(ps, p) ==
    p \in DOMAIN ps /\ ps[p].st \in {"run", "zombie"}

RECURSIVE DescN(_, _, _)
DescN(ps, S, n) ==
    IF n = 0 THEN S
    ELSE DescN(ps, S \cup {c \in DOMAIN ps : ps[c].st = "run" /\ ps[c].ppid \in S}, n - 1)

\* psutil.Process(pid).children(recursive=True)
Descendants(ps, p) ==
    DescN(ps, {p}, Len(ps)) \ {p}

RECURSIVE SortedSeq(_)
SortedSeq(S) ==
    IF S = {} THEN <<>>
    ELSE LET m == CHOOSE x \in S : \A y \in S : x <= y
         IN <<m>> \o SortedSeq(S \ {m})

\* Process p ends: the Popen's process stays as a zombie until the Popen reaps it,
\* any other process is reaped by its own parent; its children are re-parented to
\* init, which is outside the table.
Exited(ps, p) ==
    [q \in DOMAIN ps |->
        IF q = p THEN [ps[p] EXCEPT !.st = IF process = Some(p) THEN "zombie" ELSE "gone",
                                    !.ppid = -1]
        ELSE IF ps[q].ppid = p THEN [ps[q] EXCEPT !.ppid = -1]
        ELSE ps[q]]

RECURSIVE ExitedAll(_, _)
ExitedAll(ps, S) ==
    IF S = {} THEN ps
    ELSE LET p == CHOOSE x \in S : TRUE
         IN ExitedAll(Exited(ps, p), S \ {p})

\* Both signals end a running process; a zombie takes the signal without effect.
Signalled(ps, p) ==
    IF ps[p].st = "run" THEN Exited(ps, p) ELSE ps

\* child.send_signal(sig) for each process of q in turn, then proc.send_signal(sig):
\* psutil raises NoSuchProcess for a process that is gone, and nothing catches it.
\* n counts the signals delivered.
RECURSIVE Deliver(_, _, _, _)
Deliver(ps, n, q, gone) ==
    IF q = <<>> THEN [procs |-> ps, sent |-> n, raised |-> FALSE]
    ELSE IF Head(q) \in gone THEN [procs |-> ps, sent |-> n, raised |-> TRUE]
    ELSE Deliver(Signalled(ps, Head(q)), n + 1, Tail(q), gone)

\* kill(pid, sig, children); gone are the enumerated descendants that exit on their
\* own between the enumeration and the delivery of their signal.
kill(ps, p, children, gone) ==
    IF ~Exists(ps, p) THEN [procs |-> ps, sent |-> 0, raised |-> TRUE]
    ELSE LET q == (IF children THEN SortedSeq(Descendants(ps, p)) ELSE <<>>) \o <<p>>
         IN Deliver(ExitedAll(ps, gone), 0, q, gone)

\* Every process the Popen's process p has spawned, itself included.
TaskTree(ps, p) ==
    {q \in DOMAIN ps : ps[q].origin = p}

\* The descendants that may vanish during a kill.
Vanishing(ps, p, children) ==
    IF children /\ Exists(ps, p) THEN SUBSET Descendants(ps, p) ELSE {{}}

\* ---------------------------------------------------------------- Task helpers

\* Faulty variant: the guard without the check of completion.
send_signal_guard_started(proc, compl) ==
    proc # None

\* The guard of Task.send_signal.
send_signal_guard(proc, compl) ==
    proc # None /\ compl = None

\* What communicate() returns for a stream: the pipe's content under STORE, None otherwise.
Captured(s) ==
    IF output_action = "STORE" THEN Some(s) ELSE None

\* wait_impl: os.wait4 gives the status and the usage record of the child; when it
\* raises ChildProcessError the status is 0 and there is no usage record.
wait_impl_sts(st) ==
    IF reapable THEN st ELSE 0

wait_impl_rusage ==
    IF reapable THEN Some(maxrss) ELSE None

\* The rusage attribute of the Popen after a communicate() that found the process
\* exited: wait_impl sets it when it reaps the process, a process reaped before keeps
\* what it has.
RusageAfterWait(ps, p) ==
    IF ps[p].st = "gone" THEN popen_rusage ELSE wait_impl_rusage

\* The record the finally clause of Task.wait stores.
CompletedProcess(rc, out, err) ==
    Some([returncode |-> rc, stdout |-> out, stderr |-> err])

\* Popen.poll() reaps a process that has exited.
Reaped(ps, p) ==
    [ps EXCEPT ![p].st = "gone"]

\* The exit status of the Popen's process once the table has become ps2.
StatusAfter(ps2, sig) ==
    IF process # None /\ Running(procs, process[1]) /\ ~Running(ps2, process[1])
    THEN signal_returncode(sig)
    ELSE pstatus

\* A call ends with result r in thread th: the caller gets control back, the
\* background thread goes on to its finally clause.
Finish(th, r) ==
    /\ last' = r
    /\ pc' = IF th = "bg" THEN "async_finally" ELSE "idle"
    /\ bgres' = IF th = "bg" THEN r ELSE bgres
    /\ op' = ""
    /\ wtimeout' = FALSE

\* ---------------------------------------------------------------- raise_if_failed

\* Faulty variant: only positive exit codes count, and only "" (not None) is no output.
should_raise_positive(code, out, ensure_output) ==
    IF code # None /\ code[1] > 0 THEN TRUE
    ELSE IF ensure_output /\ out = Some(<<>>) THEN TRUE
    ELSE FALSE

should_raise(code, out, ensure_output) ==
    IF code # None /\ code[1] # 0 THEN TRUE
    ELSE IF ensure_output /\ ~Truthy(out) THEN TRUE
    ELSE FALSE

auto_msg(code, out, ensure_output) ==
    IF code # None /\ code[1] # 0
    THEN Some(<<"Process \"", name, "\" returned exit code: ", ToString(code[1])>>)
    ELSE IF ensure_output /\ ~Truthy(out)
    THEN Some(<<"Process \"", name, "\" returned no output.">>)
    ELSE None

\* Faulty variant: stderr alone, without the fall back to stdout.
proc_out_stderr(err, out) ==
    IF Truthy(err) THEN Some(strip(err[1])) ELSE None

proc_out(err, out) ==
    LET e == IF Truthy(err) THEN Some(strip(err[1])) ELSE None
    IN  IF Truthy(e) THEN e
        ELSE IF Truthy(out) THEN Some(strip(out[1])) ELSE None

RECURSIVE err_lines(_)
err_lines(msgs) ==
    IF msgs = <<>> THEN <<>>
    ELSE IF Truthy(Head(msgs)) THEN <<Head(msgs)[1]>> \o err_lines(Tail(msgs))
    ELSE err_lines(Tail(msgs))

IOError_message(message, code, out, err, ensure_output) ==
    join(err_lines(<<message, auto_msg(code, out, ensure_output), proc_out(err, out)>>))

\* ---------------------------------------------------------------- operations

TaskInit ==
    /\ procs = <<>>
    /\ process = None
    /\ pstatus = 0
    /\ pipe_out = <<>>
    /\ pipe_err = <<>>
    /\ completed = None
    /\ output_action \in OutputAction
    /\ pc = "idle"
    /\ op = ""
    /\ wtimeout = FALSE
    /\ thread = "caller"
    /\ exit_handler = FALSE
    /\ bgres = NoCall
    /\ nruns = 0
    /\ last = NoCall
    /\ handler_calls = 0
    /\ rusage = None
    /\ popen_rusage = None

\* Benchmark.__init__
BenchInit ==
    /\ bpc = "idle"
    /\ btimeout = FALSE
    /\ wd = "idle"
    /\ event = FALSE
    /\ timeout_occurred = FALSE
    /\ max_memory = 0
    /\ blast = NoBench

\* EnergyProfiler.__init__
ProfInit ==
    /\ epc = "idle"
    /\ eidx = 0
    /\ eerr = "nil"
    /\ started = {}
    /\ stopped = {}
    /\ samples = [p \in Probes |-> None]
    /\ polled = [p \in Probes |-> 0]
    /\ thr = [p \in Probes |-> "none"]
    /\ stop_ret = NoStop
    /\ elast = NoBench

\* No score asked for, and the clock of the polling thread not followed.
PollInit ==
    /\ score_ret = NoScore
    /\ interval = 1000
    /\ now_ns = 0
    /\ start_ns = 0
    /\ cur_ns = 0
    /\ sleep_ns = 0
    /\ proc_ns = 0
    /\ done_ns = 0

\* No function of the library called yet.
LibInit ==
    /\ args = <<>>
    /\ ret = <<>>

\* PowertopProbe not constructed.
PowertopInit ==
    /\ atexit_funcs = 0
    /\ pt_state = "none"
    /\ pt_energy_task = FALSE
    /\ pt_pids = None
    /\ report_dir = "none"
    /\ reports = 0
    /\ powertop = "none"

\* A PowermetricsProbe as constructed: no run, the event not set.
PowermetricsInit ==
    /\ pm_runs = 0
    /\ pm_pc = "idle"
    /\ pm_samples = <<>>
    /\ pm_event = FALSE
    /\ pm_helper = [g \in 1..MaxRuns |-> "none"]
    /\ pm_out = [g \in 1..MaxRuns |-> 0]
    /\ pm_thread = [g \in 1..MaxRuns |-> "none"]
    /\ pm_pipe = [g \in 1..MaxRuns |-> 0]

\* No operation of a thread on the registry.
NoOp ==
    [pc |-> "idle", op |-> "", task |-> 0, size |-> 0, todo |-> {}, dead |-> {},
     res |-> "", val |-> {}]

\* The registry as the class is loaded: empty.
RegistryInit ==
    /\ ALL = {}
    /\ completed_tasks = {}
    /\ ntasks = 0
    /\ task_proc = [x \in 1..MaxTasks |-> "none"]
    /\ reg_op = [t \in Threads |-> NoOp]

\* This program runs as root and has constructed no probe and no task.
SysInit ==
    /\ euid = 0
    /\ interp = "running"
    /\ PowertopInit
    /\ PowermetricsInit
    /\ RegistryInit

\* A new Task, Benchmark and EnergyProfiler that nothing has been called on.
IdleInit ==
    /\ TaskInit
    /\ BenchInit
    /\ ProfInit
    /\ PollInit
    /\ maxrss = 1
    /\ reapable = TRUE
    /\ platform = "Linux"

\* A Task on its own, on a system where wait4 finds the child.
Init ==
    /\ TaskInit
    /\ BenchInit
    /\ ProfInit
    /\ PollInit
    /\ LibInit
    /\ SysInit
    /\ maxrss = 1
    /\ reapable = TRUE
    /\ platform = "Linux"

\* The body of Task.run in thread th: Popen either fails (the error is raised again
\* by the except clause) or yields a new child process; with wait the thread then
\* blocks in Task.wait.  A new Popen reaps what an abandoned one left behind.
run_body(th, wait, timeout) ==
    /\ pc = "idle"
    /\ nruns < MaxRuns
    /\ nruns' = nruns + 1
    /\ \E spawned \in BOOLEAN :
        IF spawned
        THEN /\ Len(procs) < MaxProcs
             /\ procs' = Append([q \in DOMAIN procs |->
                                    IF procs[q].st = "zombie" THEN [procs[q] EXCEPT !.st = "gone"]
                                    ELSE IF procs[q].ppid = 0 THEN [procs[q] EXCEPT !.ppid = -1]
                                    ELSE procs[q]],
                                [st |-> "run", ppid |-> 0, origin |-> Len(procs) + 1])
             /\ process' = Some(Len(procs) + 1)
             /\ pstatus' = 0
             /\ pipe_out' = <<>>
             /\ pipe_err' = <<>>
             /\ popen_rusage' = None
             /\ IF wait
                THEN /\ pc' = "communicate"
                     /\ op' = "run"
                     /\ wtimeout' = timeout
                     /\ last' = NoCall
                     /\ UNCHANGED bgres
                ELSE Finish(th, Result("run", "returned", "nil", "", 0))
        ELSE /\ Finish(th, Result("run", "raised", "OSError", "", 0))
             /\ UNCHANGED <<procs, process, pstatus, pipe_out, pipe_err, popen_rusage>>
    /\ UNCHANGED <<completed, output_action, rusage>>

run(wait, timeout) ==
    /\ run_body("caller", wait, timeout)
    /\ thread' = "caller"
    /\ UNCHANGED <<exit_handler, handler_calls>>

\* Task.run_async: a new thread runs _run_async_thread(timeout, exit_handler).
run_async(timeout, handler) ==
    /\ run_body("bg", TRUE, timeout)
    /\ thread' = "bg"
    /\ exit_handler' = handler
    /\ handler_calls' = 0

\* Task.wait called by the caller: without a process the patching of _try_wait and
\* then poll() in the finally clause fail on None, and nothing is stored.
wait(timeout) ==
    /\ pc = "idle"
    /\ IF process = None
       THEN /\ last' = Result("wait", "raised", "AttributeError", "", 0)
            /\ UNCHANGED ctlState
       ELSE /\ pc' = "communicate"
            /\ op' = "wait"
            /\ wtimeout' = timeout
            /\ thread' = "caller"
            /\ last' = NoCall
            /\ UNCHANGED <<exit_handler, bgres, handler_calls>>
    /\ UNCHANGED <<taskState, osState, nruns>>

\* Faulty variant: the wait checks the exit status, as subprocess.run(check=True) does.
communicate_returns_checked ==
    /\ pc = "communicate"
    /\ ~Running(procs, process[1])
    /\ procs' = Reaped(procs, process[1])
    /\ completed' = CompletedProcess(Some(wait_impl_sts(pstatus)), Captured(pipe_out),
                                     Captured(pipe_err))
    /\ popen_rusage' = RusageAfterWait(procs, process[1])
    /\ rusage' = popen_rusage'
    /\ Finish(thread, IF pstatus = 0 THEN Result(op, "returned", "nil", "exit", 0)
                      ELSE Result(op, "raised", "IOError", "exit", 0))
    /\ UNCHANGED <<process, pstatus, pipe_out, pipe_err, output_action, thread,
                   exit_handler, nruns, handler_calls>>

\* communicate() returns: the process has exited; poll() gives its status.
communicate_returns ==
    /\ pc = "communicate"
    /\ ~Running(procs, process[1])
    /\ procs' = Reaped(procs, process[1])
    /\ completed' = CompletedProcess(Some(wait_impl_sts(pstatus)), Captured(pipe_out),
                                     Captured(pipe_err))
    /\ popen_rusage' = RusageAfterWait(procs, process[1])
    /\ rusage' = popen_rusage'
    /\ Finish(thread, Result(op, "returned", "nil", "exit", 0))
    /\ UNCHANGED <<process, pstatus, pipe_out, pipe_err, output_action, thread,
                   exit_handler, nruns, handler_calls>>

\* What poll() returns in the finally clause when no communicate() has reaped the
\* process: None while it runs, its status (reaping it) once it has exited.
poll_now(ps) ==
    IF Running(ps, process[1]) THEN None ELSE Some(wait_impl_sts(pstatus))

\* communicate(timeout) raises TimeoutExpired.
communicate_timeout ==
    /\ pc = "communicate"
    /\ wtimeout
    /\ IF send_signal_guard(process, completed)
       THEN \E gone \in Vanishing(procs, process[1], TRUE) :
            LET k == kill(procs, process[1], TRUE, gone)
                st == StatusAfter(k.procs, "SIGKILL")
            IN  /\ pstatus' = st
                /\ IF k.raised
                   THEN \* NoSuchProcess leaves the handler; the finally clause still runs
                        /\ procs' = IF Running(k.procs, process[1]) THEN k.procs
                                    ELSE Reaped(k.procs, process[1])
                        /\ completed' = CompletedProcess(poll_now(k.procs), None, None)
                        /\ popen_rusage' = popen_rusage
                        /\ Finish(thread, Result(op, "raised", "NoSuchProcess", "timeout", k.sent))
                   ELSE \* the process is dead: the drain returns what the pipes hold
                        /\ procs' = Reaped(k.procs, process[1])
                        /\ completed' = CompletedProcess(Some(wait_impl_sts(st)),
                                                         Captured(pipe_out), Captured(pipe_err))
                        /\ popen_rusage' = RusageAfterWait(k.procs, process[1])
                        /\ Finish(thread, Result(op, "raised", "TimeoutExpired", "timeout", k.sent))
       ELSE /\ UNCHANGED pstatus
            /\ IF Running(procs, process[1])
               THEN \* nothing was signalled: the 5 s drain times out as well
                    /\ procs' = procs
                    /\ completed' = CompletedProcess(None, None, None)
                    /\ popen_rusage' = popen_rusage
               ELSE /\ procs' = Reaped(procs, process[1])
                    /\ completed' = CompletedProcess(Some(wait_impl_sts(pstatus)),
                                                     Captured(pipe_out), Captured(pipe_err))
                    /\ popen_rusage' = RusageAfterWait(procs, process[1])
            /\ Finish(thread, Result(op, "raised", "TimeoutExpired", "timeout", 0))
    /\ rusage' = popen_rusage'
    /\ UNCHANGED <<process, pipe_out, pipe_err, output_action, thread, exit_handler,
                   nruns, handler_calls>>

\* communicate() raises any other exception.
communicate_fails ==
    /\ pc = "communicate"
    /\ IF send_signal_guard(process, completed)
       THEN \E gone \in Vanishing(procs, process[1], TRUE) :
            LET k == kill(procs, process[1], TRUE, gone)
                st == StatusAfter(k.procs, "SIGKILL")
            IN  /\ pstatus' = st
                /\ \E seen \in BOOLEAN :
                    \* a process killed an instant ago may not have ended yet for poll()
                    /\ seen \/ (Running(procs, process[1]) /\ ~Running(k.procs, process[1]))
                    /\ IF Running(k.procs, process[1]) \/ ~seen
                       THEN /\ procs' = k.procs
                            /\ completed' = CompletedProcess(None, None, None)
                       ELSE /\ procs' = Reaped(k.procs, process[1])
                            /\ completed' = CompletedProcess(Some(wait_impl_sts(st)), None, None)
                /\ Finish(thread, Result(op, "raised",
                                         IF k.raised THEN "NoSuchProcess" ELSE "Exception",
                                         "failure", k.sent))
       ELSE /\ UNCHANGED pstatus
            /\ procs' = IF Running(procs, process[1]) THEN procs
                        ELSE Reaped(procs, process[1])
            /\ completed' = CompletedProcess(poll_now(procs), None, None)
            /\ Finish(thread, Result(op, "raised", "Exception", "failure", 0))
    /\ rusage' = popen_rusage
    /\ UNCHANGED <<process, pipe_out, pipe_err, output_action, thread, exit_handler,
                   nruns, handler_calls, popen_rusage>>

\* Faulty variant: the exit handler is called in an else clause, not in the finally clause.
async_finish_else ==
    /\ pc = "async_finally"
    /\ IF exit_handler /\ bgres.res # "raised"
       THEN /\ handler_calls' = handler_calls + 1
            /\ last' = Result("exit_handler", bgres.res, "nil", bgres.why, 0)
       ELSE /\ handler_calls' = handler_calls
            /\ last' = NoCall
    /\ pc' = "idle"
    /\ thread' = "caller"
    /\ bgres' = NoCall
    /\ UNCHANGED <<taskState, osState, op, wtimeout, exit_handler, nruns>>

\* The except and finally clauses of Task._run_async_thread: err is the exception
\* run() raised, None without one, and the exit handler, if any, is called with it.
\* The call is recorded with the outcome of run() and the error it was handed.
async_finish ==
    /\ pc = "async_finally"
    /\ LET err == IF bgres.res = "raised" THEN bgres.err ELSE "nil"
       IN  IF exit_handler
           THEN /\ handler_calls' = handler_calls + 1
                /\ last' = Result("exit_handler", bgres.res, err, bgres.why, 0)
           ELSE /\ handler_calls' = handler_calls
                /\ last' = NoCall
    /\ pc' = "idle"
    /\ thread' = "caller"
    /\ bgres' = NoCall
    /\ UNCHANGED <<taskState, osState, op, wtimeout, exit_handler, nruns>>

send_signal(sig, children) ==
    /\ IF send_signal_guard(process, completed)
       THEN \E gone \in Vanishing(procs, process[1], children) :
            LET k == kill(procs, process[1], children, gone)
            IN  /\ procs' = k.procs
                /\ pstatus' = StatusAfter(k.procs, sig)
                /\ last' = [Result("send_signal",
                                   IF k.raised THEN "raised" ELSE "returned",
                                   IF k.raised THEN "NoSuchProcess" ELSE "nil",
                                   "", k.sent) EXCEPT !.children = children]
       ELSE /\ last' = [Result("send_signal", "returned", "nil", "", 0)
                            EXCEPT !.children = children]
            /\ UNCHANGED <<procs, pstatus>>
    /\ UNCHANGED <<taskState, pipe_out, pipe_err, ctlState, nruns>>

raise_if_failed(ensure_output, message) ==
    /\ last' = [op |-> "raise_if_failed",
                res |-> IF should_raise(exit_code, stdout, ensure_output)
                        THEN "raised" ELSE "returned",
                err |-> IF should_raise(exit_code, stdout, ensure_output)
                        THEN "IOError" ELSE "nil",
                why |-> "",
                sent |-> 0,
                children |-> FALSE,
                msg |-> IF should_raise(exit_code, stdout, ensure_output)
                        THEN IOError_message(message, exit_code, stdout, stderr, ensure_output)
                        ELSE <<>>,
                ensure_output |-> ensure_output,
                message |-> message]
    /\ UNCHANGED <<taskState, osState, ctlState, nruns>>

\* ---------------------------------------------------------------- environment

\* A running process of the table ends on its own; the Popen's process leaves an
\* exit status and, under STORE, what it wrote to its pipes (one of outs).
ProcExit(p, outs) ==
    /\ Running(procs, p)
    /\ procs' = Exited(procs, p)
    /\ IF process = Some(p)
       THEN /\ pstatus' \in ExitCodes
            /\ pipe_out' \in (IF output_action = "STORE" THEN outs ELSE {<<>>})
            /\ pipe_err' \in (IF output_action = "STORE" THEN outs ELSE {<<>>})
       ELSE UNCHANGED <<pstatus, pipe_out, pipe_err>>
    /\ last' = NoCall
    /\ UNCHANGED <<taskState, ctlState, nruns>>

\* A running process forks a child.
Fork(p) ==
    /\ Running(procs, p)
    /\ Len(procs) < MaxProcs
    /\ procs' = Append(procs, [st |-> "run", ppid |-> p, origin |-> procs[p].origin])
    /\ last' = NoCall
    /\ UNCHANGED <<taskState, pstatus, pipe_out, pipe_err, ctlState, nruns>>

Next ==
    \/ \E w, t \in BOOLEAN : run(w, t) /\ UNCHANGED extState
    \/ \E t, h \in BOOLEAN : run_async(t, h) /\ UNCHANGED extState
    \/ \E t \in BOOLEAN : wait(t) /\ UNCHANGED extState
    \/ communicate_returns /\ UNCHANGED extState
    \/ communicate_timeout /\ UNCHANGED extState
    \/ communicate_fails /\ UNCHANGED extState
    \/ async_finish /\ UNCHANGED extState
    \/ \E sig \in Signals, c \in BOOLEAN : send_signal(sig, c) /\ UNCHANGED extState
    \/ raise_if_failed(FALSE, None) /\ UNCHANGED extState
    \/ \E p \in 1..MaxProcs : ProcExit(p, LifeOutputs) /\ UNCHANGED extState
    \/ \E p \in 1..MaxProcs : Fork(p) /\ UNCHANGED extState

Spec ==
    Init /\ [][Next]_vars

\* ---------------------------------------------------------------- Benchmark

\* Faulty variant: the usage record's value is taken as bytes on every platform.
max_memory_of_unscaled(ru, sys) ==
    IF ru # None THEN ru[1] ELSE 0

\* Benchmark._max_memory from Task.rusage: ru_maxrss, 0 without a usage record,
\* multiplied by 1024 on every platform but Darwin.
max_memory_of(ru, sys) ==
    LET m == IF ru # None THEN ru[1] ELSE 0
    IN  IF sys # "Darwin" THEN m * 1024 ELSE m

\* Benchmark.run starts the watchdog thread.  (A run is started here only once the
\* watchdog of the previous one has ended.)
bench_run(timeout) ==
    /\ bpc = "idle"
    /\ pc = "idle"
    /\ wd \in {"idle", "passed", "killed"}
    /\ nruns < MaxRuns
    /\ bpc' = "task_run"
    /\ btimeout' = timeout
    /\ wd' = "waiting"
    /\ blast' = NoBench
    /\ last' = NoCall
    /\ UNCHANGED <<taskState, osState, ctlState, nruns, envState, libState, profState, pollState, event,
                   timeout_occurred, max_memory>>

\* self.task.run(): Popen, then the thread blocks in Task.wait without a timeout; an
\* error of Popen leaves Benchmark.run.
bench_task_run ==
    /\ bpc = "task_run"
    /\ run(TRUE, FALSE)
    /\ IF pc' = "communicate"
       THEN /\ bpc' = "in_run"
            /\ blast' = blast
       ELSE /\ bpc' = "idle"
            /\ blast' = BenchResult("raised", last'.err)
    /\ UNCHANGED <<envState, libState, profState, pollState, btimeout, wd, event, timeout_occurred, max_memory>>

\* self.task.run() returns: the process has exited and was reaped.
bench_run_returns ==
    /\ bpc = "in_run"
    /\ communicate_returns
    /\ bpc' = "set_event"
    /\ UNCHANGED <<envState, libState, profState, pollState, btimeout, wd, event, timeout_occurred, max_memory, blast>>

\* The wait inside self.task.run(), or self.task.wait(), fails: the error leaves
\* Benchmark.run.
bench_wait_fails ==
    /\ bpc \in {"in_run", "in_wait"}
    /\ communicate_fails
    /\ bpc' = "idle"
    /\ blast' = BenchResult("raised", last'.err)
    /\ UNCHANGED <<envState, libState, profState, pollState, btimeout, wd, event, timeout_occurred, max_memory>>

\* The completion event is set and the measurements are taken.
bench_measure ==
    /\ bpc = "set_event"
    /\ event' = TRUE
    /\ max_memory' = max_memory_of(rusage, platform)
    /\ bpc' = "task_wait"
    /\ last' = NoCall
    /\ UNCHANGED <<taskState, osState, ctlState, nruns, envState, libState, profState, pollState, btimeout, wd,
                   timeout_occurred, blast>>

\* self.task.wait(timeout=timeout)
bench_task_wait ==
    /\ bpc = "task_wait"
    /\ wait(btimeout)
    /\ bpc' = "in_wait"
    /\ UNCHANGED <<envState, libState, profState, pollState, btimeout, wd, event, timeout_occurred, max_memory, blast>>

\* self.task.wait returns at once: the Popen already has its return code.
bench_wait_returns ==
    /\ bpc = "in_wait"
    /\ communicate_returns
    /\ bpc' = "check"
    /\ UNCHANGED <<envState, libState, profState, pollState, btimeout, wd, event, timeout_occurred, max_memory, blast>>

\* The end of Benchmark.run: TimeoutExpired if the watchdog has set its flag.
bench_check ==
    /\ bpc = "check"
    /\ bpc' = "idle"
    /\ blast' = IF timeout_occurred THEN BenchResult("raised", "TimeoutExpired")
                ELSE BenchResult("returned", "nil")
    /\ last' = NoCall
    /\ UNCHANGED <<taskState, osState, ctlState, nruns, envState, libState, profState, pollState, btimeout, wd, event,
                   timeout_occurred, max_memory>>

\* Benchmark._watchdog: Event.wait(timeout) returns True, the event is set.
wd_event ==
    /\ wd = "waiting"
    /\ event
    /\ wd' = "passed"
    /\ last' = NoCall
    /\ UNCHANGED <<taskState, osState, ctlState, nruns, envState, libState, profState, pollState, bpc, btimeout, event,
                   timeout_occurred, max_memory, blast>>

\* Benchmark._watchdog: Event.wait(timeout) returns False, the deadline has passed
\* with the event not set.
wd_expire ==
    /\ wd = "waiting"
    /\ btimeout
    /\ ~event
    /\ wd' = "expired"
    /\ last' = NoCall
    /\ UNCHANGED <<taskState, osState, ctlState, nruns, envState, libState, profState, pollState, bpc, btimeout, event,
                   timeout_occurred, max_memory, blast>>

\* Benchmark._watchdog: self._timeout_occurred = True
wd_flag ==
    /\ wd = "expired"
    /\ timeout_occurred' = TRUE
    /\ wd' = "flagged"
    /\ last' = NoCall
    /\ UNCHANGED <<taskState, osState, ctlState, nruns, envState, libState, profState, pollState, bpc, btimeout, event,
                   max_memory, blast>>

\* Benchmark._watchdog: self.task.send_signal(signal.SIGKILL)
wd_kill ==
    /\ wd = "flagged"
    /\ send_signal("SIGKILL", FALSE)
    /\ wd' = "killed"
    /\ UNCHANGED <<envState, libState, profState, pollState, bpc, btimeout, event, timeout_occurred, max_memory, blast>>

\* The processes around a Benchmark: they exit and fork as around a Task.
bench_env ==
    /\ \/ \E p \in 1..MaxProcs : ProcExit(p, LifeOutputs)
       \/ \E p \in 1..MaxProcs : Fork(p)
    /\ UNCHANGED extState

\* A Benchmark of a new Task, on either platform, with or without a child wait4 finds.
InitBench ==
    /\ TaskInit
    /\ BenchInit
    /\ ProfInit
    /\ PollInit
    /\ LibInit
    /\ SysInit
    /\ maxrss \in 1..MaxRss
    /\ reapable \in BOOLEAN
    /\ platform \in {"Darwin", "Linux"}

NextBench ==
    \/ \E t \in BOOLEAN : bench_run(t)
    \/ bench_task_run
    \/ bench_run_returns
    \/ bench_wait_fails
    \/ bench_measure
    \/ bench_task_wait
    \/ bench_wait_returns
    \/ bench_check
    \/ wd_event
    \/ wd_expire
    \/ wd_flag
    \/ wd_kill
    \/ bench_env

SpecBench ==
    InitBench /\ [][NextBench]_vars

\* ---------------------------------------------------------------- EnergyProfiler

NumProbes == Cardinality(Probes)

\* The elapsed time, in milliseconds, a sample record carries where the clock is not
\* followed (SpecPoll follows it).
Elapsed == {1}

\* What stop() of a probe can return: one averaged value, or a sequence of samples of
\* any length (the k-th sample is k, so that their order shows).
StopResults ==
    {[kind |-> "float", v |-> <<3>>]}
    \cup {[kind |-> "seq", v |-> [k \in 1..n |-> k]] : n \in 0..MaxSamples}

\* Faulty variant: the sequence is written as far as it goes before its length is checked.
reconcile_prefix(recs, r) ==
    IF r.kind = "float"
    THEN [ok |-> TRUE, recs |-> [k \in DOMAIN recs |-> [recs[k] EXCEPT !.power = r.v[1]]]]
    ELSE [ok |-> Len(r.v) = Len(recs),
          recs |-> [k \in DOMAIN recs |->
                       IF k <= Len(r.v) THEN [recs[k] EXCEPT !.power = r.v[k]]
                       ELSE recs[k]]]

\* The body of the loop of _stop_probes for one probe: what stop() returned is written
\* into the recorded samples recs, unless it is a sequence of another length.
reconcile(recs, r) ==
    IF r.kind = "float"
    THEN [ok |-> TRUE, recs |-> [k \in DOMAIN recs |-> [recs[k] EXCEPT !.power = r.v[1]]]]
    ELSE IF Len(r.v) # Len(recs)
    THEN [ok |-> FALSE, recs |-> recs]
    ELSE [ok |-> TRUE, recs |-> [k \in DOMAIN recs |-> [recs[k] EXCEPT !.power = r.v[k]]]]

\* EnergyProfiler.run is called.  (A run is started here only once the polling
\* threads of the previous one have ended.)
eprof_run ==
    /\ epc = "idle"
    /\ pc = "idle"
    /\ nruns < MaxRuns
    /\ \A p \in Probes : thr[p] \in {"none", "done"}
    /\ epc' = "starting"
    /\ eidx' = 1
    /\ eerr' = "nil"
    /\ started' = {}
    /\ stopped' = {}
    /\ stop_ret' = NoStop
    /\ elast' = NoBench
    /\ last' = NoCall
    /\ UNCHANGED <<taskState, osState, ctlState, nruns, envState, libState, benchState, pollState, samples,
                   polled, thr>>

\* One turn of the loop of _start_probes: start() of the probe, which may raise (the
\* error leaves run, which calls _start_probes outside its try), then the timestamp
\* and an empty list of samples.
eprof_start ==
    /\ epc = "starting"
    /\ \E ok \in BOOLEAN :
        IF ok
        THEN /\ started' = started \cup {eidx}
             /\ samples' = [samples EXCEPT ![eidx] = Some(<<>>)]
             /\ polled' = [polled EXCEPT ![eidx] = 0]
             /\ epc' = IF eidx = NumProbes THEN "threads" ELSE "starting"
             /\ eidx' = IF eidx = NumProbes THEN 0 ELSE eidx + 1
             /\ elast' = elast
        ELSE /\ epc' = "idle"
             /\ eidx' = 0
             /\ elast' = BenchResult("raised", "ProbeError")
             /\ UNCHANGED <<started, samples, polled>>
    /\ stop_ret' = NoStop
    /\ last' = NoCall
    /\ UNCHANGED <<taskState, osState, ctlState, nruns, envState, libState, benchState, pollState, eerr,
                   stopped, thr>>

\* The end of _start_probes: one polling thread per probe is created and started.
eprof_threads ==
    /\ epc = "threads"
    /\ thr' = [p \in Probes |-> "test"]
    /\ epc' = "task_run"
    /\ stop_ret' = NoStop
    /\ last' = NoCall
    /\ UNCHANGED <<taskState, osState, ctlState, nruns, envState, libState, benchState, pollState, eidx,
                   eerr, started, stopped, samples, polled, elast>>

\* self._task.run(timeout=timeout): Popen, then the wait; an error of Popen takes run
\* to its finally clause.
eprof_task_run ==
    /\ epc = "task_run"
    /\ \E t \in BOOLEAN : run(TRUE, t)
    /\ IF pc' = "communicate"
       THEN /\ epc' = "in_run"
            /\ UNCHANGED <<eidx, eerr>>
       ELSE /\ epc' = "joining"
            /\ eidx' = 1
            /\ eerr' = last'.err
    /\ stop_ret' = NoStop
    /\ UNCHANGED <<envState, libState, benchState, pollState, started, stopped, samples, polled, thr, elast>>

\* self._task.run returns or raises out of its wait.
eprof_run_ends ==
    /\ epc = "in_run"
    /\ \/ communicate_returns
       \/ communicate_timeout
       \/ communicate_fails
    /\ epc' = "joining"
    /\ eidx' = 1
    /\ eerr' = last'.err
    /\ stop_ret' = NoStop
    /\ UNCHANGED <<envState, libState, benchState, pollState, started, stopped, samples, polled, thr, elast>>

\* Faulty variant: only the first polling thread is joined.
eprof_join_first ==
    /\ epc = "joining"
    /\ epc' = "stopping"
    /\ eidx' = 1
    /\ stop_ret' = NoStop
    /\ last' = NoCall
    /\ UNCHANGED <<taskState, osState, ctlState, nruns, envState, libState, benchState, pollState, eerr,
                   started, stopped, samples, polled, thr, elast>>

\* threads[i].join(timeout=...) returns: the thread has ended, or the timeout has passed.
eprof_join ==
    /\ epc = "joining"
    /\ epc' = IF eidx = NumProbes THEN "stopping" ELSE "joining"
    /\ eidx' = IF eidx = NumProbes THEN 1 ELSE eidx + 1
    /\ stop_ret' = NoStop
    /\ last' = NoCall
    /\ UNCHANGED <<taskState, osState, ctlState, nruns, envState, libState, benchState, pollState, eerr,
                   started, stopped, samples, polled, thr, elast>>

\* One turn of the loop of _stop_probes: stop() of the probe and the reconciliation of
\* its result with the recorded samples; ValueError leaves the loop and run.  After the
\* last probe run returns, or raises what self._task.run raised.
eprof_stop ==
    /\ epc = "stopping"
    /\ \E r \in StopResults :
        LET rc == reconcile(samples[eidx][1], r)
        IN  /\ stop_ret' = StopReturn(eidx, r.kind, r.v)
            /\ samples' = [samples EXCEPT ![eidx] = Some(rc.recs)]
            /\ IF ~rc.ok
               THEN /\ epc' = "idle"
                    /\ eidx' = 0
                    /\ elast' = BenchResult("raised", "ValueError")
               ELSE IF eidx = NumProbes
               THEN /\ epc' = "idle"
                    /\ eidx' = 0
                    /\ elast' = IF eerr = "nil" THEN BenchResult("returned", "nil")
                                ELSE BenchResult("raised", eerr)
               ELSE /\ epc' = "stopping"
                    /\ eidx' = eidx + 1
                    /\ elast' = elast
    /\ stopped' = stopped \cup {eidx}
    /\ last' = NoCall
    /\ UNCHANGED <<taskState, osState, ctlState, nruns, envState, libState, benchState, pollState, eerr,
                   started, polled, thr>>

\* _poll_probe: the test of the while loop.
thr_test(p) ==
    /\ thr[p] = "test"
    /\ thr' = [thr EXCEPT ![p] = IF is_completed THEN "done" ELSE "sleep"]
    /\ stop_ret' = NoStop
    /\ last' = NoCall
    /\ UNCHANGED <<taskState, osState, ctlState, nruns, envState, libState, benchState, pollState, epc, eidx,
                   eerr, started, stopped, samples, polled, elast>>

\* _poll_probe: the sleep is over and probe.poll() is called.
thr_poll(p) ==
    /\ thr[p] = "sleep"
    /\ polled[p] < MaxSamples
    /\ polled' = [polled EXCEPT ![p] = polled[p] + 1]
    /\ thr' = [thr EXCEPT ![p] = "polled"]
    /\ stop_ret' = NoStop
    /\ last' = NoCall
    /\ UNCHANGED <<taskState, osState, ctlState, nruns, envState, libState, benchState, pollState, epc, eidx,
                   eerr, started, stopped, samples, elast>>

\* _poll_probe: a sample record with the elapsed time and the default power 0.0 is
\* appended to the samples of the probe.
thr_append(p) ==
    /\ thr[p] = "polled"
    /\ \E e \in Elapsed :
        samples' = [samples EXCEPT ![p] = Some(Append(samples[p][1], EnergySample(0, e)))]
    /\ thr' = [thr EXCEPT ![p] = "test"]
    /\ stop_ret' = NoStop
    /\ last' = NoCall
    /\ UNCHANGED <<taskState, osState, ctlState, nruns, envState, libState, benchState, pollState, epc, eidx,
                   eerr, started, stopped, polled, elast>>

\* The profiled process ends on its own.
eprof_env ==
    /\ \E p \in 1..MaxProcs : ProcExit(p, {<<>>})
    /\ stop_ret' = NoStop
    /\ UNCHANGED <<envState, libState, benchState, pollState, epc, eidx, eerr, started, stopped, samples,
                   polled, thr, elast>>

\* An EnergyProfiler with its probes and a new Task.
InitEnergy ==
    /\ TaskInit
    /\ BenchInit
    /\ ProfInit
    /\ PollInit
    /\ LibInit
    /\ SysInit
    /\ maxrss = 1
    /\ reapable = TRUE
    /\ platform = "Linux"

NextEnergy ==
    \/ eprof_run
    \/ eprof_start
    \/ eprof_threads
    \/ eprof_task_run
    \/ eprof_run_ends
    \/ eprof_join
    \/ eprof_stop
    \/ \E p \in Probes : thr_test(p)
    \/ \E p \in Probes : thr_poll(p)
    \/ \E p \in Probes : thr_append(p)
    \/ eprof_env

SpecEnergy ==
    InitEnergy /\ [][NextEnergy]_vars

\* ---------------------------------------------------------------- EnergyProfiler.score

\* The powers and the intervals (in milliseconds) of the recorded samples.
Powers == {0, 3}

Intervals == {1, 2}

\* EnergySample.energy
energy(smp) ==
    smp.power * smp.interval

\* sum(s.energy for s in recs)
RECURSIVE sum_energy(_)
sum_energy(recs) ==
    IF recs = <<>> THEN 0 ELSE energy(Head(recs)) + sum_energy(Tail(recs))

\* EnergyProfiler.score(probe): self._samples[probe] is a plain subscript, which
\* raises KeyError when the dictionary has no entry for the probe; the division by
\* 1E3 is kept as the denominator of the result.
score(p) ==
    IF samples[p] = None
    THEN ScoreReturn(p, "raised", "KeyError", 0, 1)
    ELSE ScoreReturn(p, "returned", "nil", sum_energy(samples[p][1]), 1000)

\* EnergyProfiler.samples(probe): self._samples.get(probe, [])
samples_of(p) ==
    IF samples[p] = None THEN <<>> ELSE samples[p][1]

score_call(p) ==
    /\ score_ret' = score(p)
    /\ UNCHANGED <<taskState, osState, ctlState, nruns, last, envState, libState, benchState, profState,
                   interval, now_ns, start_ns, cur_ns, sleep_ns, proc_ns, done_ns>>

\* The sample lists a profiler can hold for one probe.
SampleLists ==
    UNION {[1..n -> [power : Powers, interval : Intervals]] : n \in 0..MaxSamples}

\* A profiler whose probes have no entry (no run yet, or a run that never started
\* them) or any recorded list.
InitScore ==
    /\ TaskInit
    /\ BenchInit
    /\ PollInit
    /\ LibInit
    /\ SysInit
    /\ maxrss = 1
    /\ reapable = TRUE
    /\ platform = "Linux"
    /\ epc = "idle"
    /\ eidx = 0
    /\ eerr = "nil"
    /\ started = {}
    /\ stopped = {}
    /\ samples \in [Probes -> {None} \cup {Some(l) : l \in SampleLists}]
    /\ polled = [p \in Probes |-> 0]
    /\ thr = [p \in Probes |-> "none"]
    /\ stop_ret = NoStop
    /\ elast = NoBench

NextScore ==
    \E p \in Probes : score_call(p)

SpecScore ==
    InitScore /\ [][NextScore]_vars

\* ---------------------------------------------------------------- _poll_probe on the clock

MaxInterval == 3

MaxDone == 6

\* probe.interval * 1000000 and (cur_ns - start_ns) / 1E6: nanoseconds in a millisecond.
NsPerMs == 1000000

\* The time, in milliseconds, between the start timestamp of the probe and the first
\* reading of the clock by its polling thread.
Latencies == {0, 1}

\* The time, in milliseconds, that probe.poll(), the append and the way back to the
\* test of the loop can take: nothing, less than the interval, the whole interval.
ProcTimes == {0, 1, interval}

\* Task.completed as the polling thread reads it at the time t.
completed_at(t) ==
    t >= done_ns

\* One turn of the while loop up to the reading of the clock: the test, sleep_ns, the
\* sleep when sleep_ns is positive, cur_ns.
poll_turn ==
    /\ thr[1] = "test"
    /\ IF completed_at(now_ns)
       THEN /\ thr' = [thr EXCEPT ![1] = "done"]
            /\ UNCHANGED <<now_ns, cur_ns, sleep_ns>>
       ELSE LET interval_ns == interval * NsPerMs
                s == interval_ns - (cur_ns - start_ns)
            IN  /\ sleep_ns' = s
                /\ now_ns' = IF s > 0 THEN now_ns + s ELSE now_ns
                /\ cur_ns' = now_ns'
                /\ thr' = [thr EXCEPT ![1] = "sleep"]
    /\ UNCHANGED <<taskState, osState, ctlState, nruns, last, envState, libState, benchState, epc, eidx,
                   eerr, started, stopped, samples, polled, stop_ret, elast, score_ret,
                   interval, start_ns, proc_ns, done_ns>>

\* Faulty variant: the sample carries the interval of the probe, not the elapsed time.
poll_sample_nominal ==
    /\ thr[1] = "sleep"
    /\ \E d \in ProcTimes :
        /\ proc_ns' = d * NsPerMs
        /\ now_ns' = now_ns + d * NsPerMs
    /\ polled' = [polled EXCEPT ![1] = polled[1] + 1]
    /\ samples' = [samples EXCEPT ![1] =
            Some(Append(samples[1][1], EnergySample(0, interval)))]
    /\ start_ns' = cur_ns
    /\ thr' = [thr EXCEPT ![1] = "test"]
    /\ UNCHANGED <<taskState, osState, ctlState, nruns, last, envState, libState, benchState, epc, eidx,
                   eerr, started, stopped, stop_ret, elast, score_ret, interval, cur_ns,
                   sleep_ns, done_ns>>

\* The rest of the turn: probe.poll() of the ZeroProbe, the sample with the elapsed
\* milliseconds, start_ns = cur_ns; all of it takes some time.
poll_sample ==
    /\ thr[1] = "sleep"
    /\ \E d \in ProcTimes :
        /\ proc_ns' = d * NsPerMs
        /\ now_ns' = now_ns + d * NsPerMs
    /\ polled' = [polled EXCEPT ![1] = polled[1] + 1]
    /\ samples' = [samples EXCEPT ![1] =
            Some(Append(samples[1][1], EnergySample(0, (cur_ns - start_ns) \div NsPerMs)))]
    /\ start_ns' = cur_ns
    /\ thr' = [thr EXCEPT ![1] = "test"]
    /\ UNCHANGED <<taskState, osState, ctlState, nruns, last, envState, libState, benchState, epc, eidx,
                   eerr, started, stopped, stop_ret, elast, score_ret, interval, cur_ns,
                   sleep_ns, done_ns>>

\* The finally clause of run once the task has completed and the thread has ended:
\* the join, then _stop_probes with the list of zeros ZeroProbe.stop() returns.
poll_stop ==
    /\ epc = "in_run"
    /\ thr[1] = "done"
    /\ LET zeros == [k \in 1..polled[1] |-> 0]
           rc == reconcile(samples[1][1], [kind |-> "seq", v |-> zeros])
       IN  /\ stop_ret' = StopReturn(1, "seq", zeros)
           /\ samples' = [samples EXCEPT ![1] = Some(rc.recs)]
           /\ elast' = IF rc.ok THEN BenchResult("returned", "nil")
                       ELSE BenchResult("raised", "ValueError")
    /\ epc' = "idle"
    /\ stopped' = stopped \cup {1}
    /\ UNCHANGED <<taskState, osState, ctlState, nruns, last, envState, libState, benchState, eidx, eerr,
                   started, polled, thr, pollState>>

\* A profiler with one ZeroProbe (probe 1) inside run: the probe is started, its
\* thread has read the clock for the first time, the task completes at done_ns.
InitPoll ==
    /\ TaskInit
    /\ BenchInit
    /\ LibInit
    /\ SysInit
    /\ maxrss = 1
    /\ reapable = TRUE
    /\ platform = "Linux"
    /\ epc = "in_run"
    /\ eidx = 0
    /\ eerr = "nil"
    /\ started = {1}
    /\ stopped = {}
    /\ samples = [p \in Probes |-> IF p = 1 THEN Some(<<>>) ELSE None]
    /\ polled = [p \in Probes |-> 0]
    /\ thr = [p \in Probes |-> IF p = 1 THEN "test" ELSE "none"]
    /\ stop_ret = NoStop
    /\ elast = NoBench
    /\ score_ret = NoScore
    /\ interval \in 2..MaxInterval
    /\ done_ns \in {k * NsPerMs : k \in 1..MaxDone}
    /\ now_ns \in {l * NsPerMs : l \in Latencies}
    /\ start_ns = 0
    /\ cur_ns = now_ns
    /\ sleep_ns = 0
    /\ proc_ns = 0

NextPoll ==
    \/ poll_turn
    \/ poll_sample
    \/ poll_stop

SpecPoll ==
    InitPoll /\ [][NextPoll]_vars

\* ---------------------------------------------------------------- raise_if_failed alone

\* Every status poll() can hand to the finally clause of Task.wait.
ReturnCodes == ExitCodes \cup {signal_returncode(sig) : sig \in Signals}

\* The values Task._completed can hold when the streams carry strings of outs: None
\* before any wait, no status and no output after a wait that failed with the process
\* alive, a status without output (PRINT, DISCARD, or a failed wait), a status with both
\* outputs (STORE).
StoredResults(outs) ==
    {None, CompletedProcess(None, None, None)}
    \cup {CompletedProcess(Some(c), None, None) : c \in ReturnCodes}
    \cup {CompletedProcess(Some(c), Some(o), Some(e)) : c \in ReturnCodes, o \in outs, e \in outs}

\* A Task whose waits, if any, are over, with any storable result.
InitRaise ==
    /\ completed \in StoredResults(Str)
    /\ output_action \in OutputAction
    /\ (stdout # None => output_action = "STORE")
    /\ process = IF completed = None THEN None ELSE Some(1)
    /\ procs = IF completed = None THEN <<>>
               ELSE <<[st |-> IF exit_code = None THEN "run" ELSE "gone",
                       ppid |-> 0, origin |-> 1]>>
    /\ pstatus = IF exit_code = None THEN 0 ELSE exit_code[1]
    /\ pipe_out = IF stdout = None THEN <<>> ELSE stdout[1]
    /\ pipe_err = IF stderr = None THEN <<>> ELSE stderr[1]
    /\ pc = "idle"
    /\ op = ""
    /\ wtimeout = FALSE
    /\ thread = "caller"
    /\ exit_handler = FALSE
    /\ bgres = NoCall
    /\ nruns = IF completed = None THEN 0 ELSE 1
    /\ last = NoCall
    /\ handler_calls = 0
    /\ maxrss = 1
    /\ reapable = TRUE
    /\ platform = "Linux"
    /\ popen_rusage = IF exit_code = None THEN None ELSE Some(maxrss)
    /\ rusage = popen_rusage
    /\ BenchInit
    /\ ProfInit
    /\ PollInit
    /\ LibInit
    /\ SysInit

NextRaise ==
    \E e \in BOOLEAN, m \in Messages : raise_if_failed(e, m) /\ UNCHANGED extState

SpecRaise ==
    InitRaise /\ [][NextRaise]_vars

\* ---------------------------------------------------------------- PowerUnit

\* A float that is a decimal fraction: m * 10^e.  Products and quotients by the
\* multipliers of the units, which are powers of ten, stay of this form.
Dec(m, e) ==
    [m |-> m, e |-> e]

RECURSIVE DecNorm(_)
DecNorm(d) ==
    IF d.m = 0 THEN Dec(0, 0)
    ELSE IF d.m % 10 = 0 THEN DecNorm(Dec(d.m \div 10, d.e + 1))
    ELSE d

\* Equality of floats.
DecEq(a, b) ==
    DecNorm(a) = DecNorm(b)

\* The characters of a value text: digits, the decimal point, and "g" for any
\* character float() does not accept.
ValueChars == {"0", "1", "2", "5", ".", "g"}

Digits == {"0", "1", "2", "5"}

DigitValue(c) ==
    CASE c = "0" -> 0 [] c = "1" -> 1 [] c = "2" -> 2 [] c = "5" -> 5

ValueTexts ==
    UNION {[1..n -> ValueChars] : n \in 0..MaxText}

\* The unit texts handed to the parser: the values of PowerUnit and an unknown one.
UnitTexts == {"uW", "mW", "W", "KW", "GW"}

\* float(text) accepts the text: digits with at most one decimal point, and at least
\* one digit.
IsFloatText(t) ==
    /\ \A i \in DOMAIN t : t[i] \in Digits \cup {"."}
    /\ Cardinality({i \in DOMAIN t : t[i] = "."}) <= 1
    /\ \E i \in DOMAIN t : t[i] \in Digits

\* The integer the digits of t spell, the decimal point left out.
RECURSIVE digits_of(_)
digits_of(t) ==
    IF t = <<>> THEN 0
    ELSE LET front == SubSeq(t, 1, Len(t) - 1)
         IN  IF t[Len(t)] = "." THEN digits_of(front)
             ELSE digits_of(front) * 10 + DigitValue(t[Len(t)])

\* The number of digits after the decimal point.
fraction_digits(t) ==
    IF \E i \in DOMAIN t : t[i] = "."
    THEN Len(t) - (CHOOSE i \in DOMAIN t : t[i] = ".")
    ELSE 0

\* float(text) of an accepted text.
float_of(t) ==
    DecNorm(Dec(digits_of(t), 0 - fraction_digits(t)))

\* StrEnum.all() of PowerUnit: its members in the order of their definition.
PowerUnit_all == <<"uW", "mW", "W", "KW">>

\* PowerUnit.multiplier: mult[self.all().index(self)]
multiplier(u) ==
    LET mult == <<Dec(1, -6), Dec(1, -3), Dec(1, 0), Dec(1, 3)>>
    IN  mult[CHOOSE i \in DOMAIN PowerUnit_all : PowerUnit_all[i] = u]

\* Measurement.to_value: self.value * self.unit.multiplier / unit.multiplier
to_value(value, unit, to) ==
    DecNorm(Dec(value.m * multiplier(unit).m, value.e + multiplier(unit).e - multiplier(to).e))

\* Faulty variant: only KeyError is caught.
caught_key_error(err) ==
    err = "KeyError"

\* except (KeyError, ValueError)
caught(err) ==
    err \in {"KeyError", "ValueError"}

\* PowertopProbe._parse_value: PowerUnit(unit) raises ValueError for a text that is no
\* value of the enumeration, PowerUnit.__call__ builds the measurement with
\* float(value), which raises ValueError for a text it does not accept.
parse_value(value, unit) ==
    LET err == IF \A i \in DOMAIN PowerUnit_all : PowerUnit_all[i] # unit THEN "ValueError"
               ELSE IF ~IsFloatText(value) THEN "ValueError"
               ELSE "nil"
    IN  IF err = "nil" THEN [res |-> "returned", err |-> "nil", val |-> to_value(float_of(value), unit, "W")]
        ELSE IF caught(err) THEN [res |-> "returned", err |-> "nil", val |-> Dec(0, 0)]
        ELSE [res |-> "raised", err |-> err, val |-> Dec(0, 0)]

parse_value_call ==
    /\ ret' = parse_value(args.value, args.unit)
    /\ UNCHANGED <<taskState, osState, ctlState, nruns, last, envState, benchState, profState,
                   pollState, args, sysState>>

InitValue ==
    /\ IdleInit
    /\ SysInit
    /\ output_action = "STORE"
    /\ args \in [value : ValueTexts, unit : UnitTexts]
    /\ ret = <<>>

NextValue ==
    parse_value_call

SpecValue ==
    InitValue /\ [][NextValue]_vars

\* ---------------------------------------------------------------- get_pid_tree

\* [t.id for t in process.threads()]: a process has its main thread, whose id is the
\* pid of the process.
threads(p) ==
    <<p>>

\* The loop of get_children_pids over the enumerated children q: p.pid, then
\* p.threads() when thread ids are asked for, which raises NoSuchProcess for a child
\* that is gone by then.
RECURSIVE children_pids(_, _, _, _)
children_pids(pids, q, include_tids, gone) ==
    IF q = <<>> THEN Some(pids)
    ELSE IF include_tids /\ Head(q) \in gone THEN None
    ELSE children_pids(pids \o <<Head(q)>> \o (IF include_tids THEN threads(Head(q)) ELSE <<>>),
                       Tail(q), include_tids, gone)

\* get_children_pids(pid, recursive=True, include_tids): None when psutil raises
\* NoSuchProcess, for the pid itself or inside the loop.
get_children_pids(ps, p, include_tids, gone) ==
    IF ~Exists(ps, p) THEN None
    ELSE children_pids(IF include_tids THEN threads(p) ELSE <<>>,
                       SortedSeq(Descendants(ps, p)), include_tids, gone)

get_pid_tree(ps, p, include_tids, gone) ==
    LET pids == get_children_pids(ps, p, include_tids, gone)
    IN  IF pids = None THEN <<>> ELSE <<p>> \o pids[1]

\* gone are the enumerated children that exit before the loop reaches them.
get_pid_tree_call ==
    /\ \E gone \in SUBSET Descendants(args.ps, args.pid) :
        ret' = [val |-> get_pid_tree(args.ps, args.pid, args.include_tids, gone), gone |-> gone]
    /\ UNCHANGED <<taskState, osState, ctlState, nruns, last, envState, benchState, profState,
                   pollState, args, sysState>>

\* The process tables of at most MaxProcs processes: a parent is this program (0),
\* init (-1) or a running process that was started before.
ProcTables ==
    UNION {{t \in [1..n -> [st : {"run", "zombie", "gone"}, ppid : -1..n, origin : {1}]] :
              \A q \in 1..n : t[q].ppid < q /\ (t[q].ppid >= 1 => t[t[q].ppid].st = "run")}
           : n \in 0..MaxProcs}

InitTree ==
    /\ IdleInit
    /\ SysInit
    /\ output_action = "STORE"
    /\ args \in [ps : ProcTables, pid : 1..MaxProcs, include_tids : BOOLEAN]
    /\ ret = <<>>

NextTree ==
    get_pid_tree_call

SpecTree ==
    InitTree /\ [][NextTree]_vars

\* ---------------------------------------------------------------- PowermetricsProbe._parse_tasks

\* A float that is the quotient of two integers, the second positive: the mean of
\* the samples is one.
Rat(n, d) ==
    [num |-> n, den |-> d]

RatEq(a, b) ==
    a.num * b.den = b.num * a.den

RatGt(a, b) ==
    a.num * b.den > b.num * a.den

RatAdd(a, b) ==
    Rat(a.num * b.den + b.num * a.den, a.den * b.den)

RECURSIVE RatSum(_)
RatSum(q) ==
    IF q = <<>> THEN Rat(0, 1) ELSE RatAdd(Head(q), RatSum(Tail(q)))

\* PowermetricsProbe._mean
mean(smps) ==
    IF Len(smps) # 0
    THEN LET t == RatSum(smps) IN Rat(t.num, t.den * Len(smps))
    ELSE Rat(0, 1)

\* Faulty variant: the outlier test without the guard on the number of samples.
validated_dead_tasks_score_unguarded(smps, sc) ==
    LET m == mean(smps)
    IN  IF RatGt(sc, Rat(Len(smps) * m.num, m.den * 2)) THEN m ELSE sc

\* PowermetricsProbe._validated_dead_tasks_score
validated_dead_tasks_score(smps, sc) ==
    IF Len(smps) > 1
    THEN LET m == mean(smps)
         IN  IF RatGt(sc, Rat(Len(smps) * m.num, m.den * 2)) THEN m ELSE sc
    ELSE sc

\* pids.remove(pid): the list without the first occurrence of pid.
RECURSIVE remove(_, _)
remove(pids, p) ==
    IF Head(pids) = p THEN Tail(pids) ELSE <<Head(pids)>> \o remove(Tail(pids), p)

\* The pid of the DEAD_TASKS row.
dead_tasks_pid == -1

\* The loop of _parse_tasks over the lines of a chunk.  A line that has no second
\* component or whose components are no numbers (ok is FALSE) raises IndexError or
\* ValueError, and so does pids.remove for a pid that is not in the list: the line
\* is skipped.
RECURSIVE parse_lines(_, _, _, _, _)
parse_lines(smps, task_lines, pids, sc, dead) ==
    IF task_lines = <<>> THEN IF sc = None THEN dead ELSE sc
    ELSE LET l == Head(task_lines)
         IN  IF ~l.ok
             THEN parse_lines(smps, Tail(task_lines), pids, sc, dead)
             ELSE IF l.pid = dead_tasks_pid
             THEN parse_lines(smps, Tail(task_lines), pids, sc,
                              Some(validated_dead_tasks_score(smps, l.score)))
             ELSE IF \A i \in DOMAIN pids : pids[i] # l.pid
             THEN parse_lines(smps, Tail(task_lines), pids, sc, dead)
             ELSE parse_lines(smps, Tail(task_lines), remove(pids, l.pid),
                              IF sc = None THEN Some(l.score) ELSE Some(RatAdd(sc[1], l.score)),
                              dead)

\* PowermetricsProbe._parse_tasks: self._samples after the call; pids is
\* get_pid_tree(self._task.pid).
parse_tasks(smps, task_lines, pids) ==
    LET sc == parse_lines(smps, task_lines, pids, None, None)
    IN  IF sc # None THEN Append(smps, sc[1]) ELSE smps

parse_tasks_call ==
    /\ ret' = [samples |-> parse_tasks(args.samples, args.lines, args.pids)]
    /\ UNCHANGED <<taskState, osState, ctlState, nruns, last, envState, benchState, profState,
                   pollState, args, sysState>>

\* The lines of a chunk: a row of a process of the task (1, 2), of another process
\* (3), the DEAD_TASKS row, or a line that is no row; a chunk has one row for a pid.
TaskLines ==
    [ok : {TRUE}, pid : {dead_tasks_pid, 1, 2, 3}, score : {Rat(1, 1), Rat(4, 1)}]
        \cup {[ok |-> FALSE, pid |-> 0, score |-> Rat(0, 1)]}

Chunks ==
    UNION {{c \in [1..n -> TaskLines] : \A i, j \in 1..n : i # j => c[i].pid # c[j].pid}
           : n \in 0..MaxLen}

InitParse ==
    /\ IdleInit
    /\ SysInit
    /\ output_action = "STORE"
    /\ args \in [samples : UNION {[1..n -> {Rat(1, 1), Rat(4, 1)}] : n \in 0..MaxSamples},
                  lines : Chunks,
                  pids : {<<>>, <<1>>, <<1, 2>>}]
    /\ ret = <<>>

NextParse ==
    parse_tasks_call

SpecParse ==
    InitParse /\ [][NextParse]_vars

\* ---------------------------------------------------------------- PowertopProbe.stop

RECURSIVE Pow10(_)
Pow10(n) ==
    IF n = 0 THEN 1 ELSE 10 * Pow10(n - 1)

\* The sum of two floats that are decimal fractions.
DecAdd(a, b) ==
    LET e == IF a.e < b.e THEN a.e ELSE b.e
    IN  DecNorm(Dec(a.m * Pow10(a.e - e) + b.m * Pow10(b.e - e), e))

RECURSIVE DecSum(_)
DecSum(q) ==
    IF q = <<>> THEN Dec(0, 0) ELSE DecAdd(Head(q), DecSum(Tail(q)))

\* _parse_value of pyutils.proc.bench: float(value), divided by 1000000.0 for uW and
\* by 1000.0 for mW, left as it is for any other unit; 0.0 when float() raises.
parse_value_bench(value, unit) ==
    IF ~IsFloatText(value) THEN Dec(0, 0)
    ELSE LET v == float_of(value)
         IN  CASE unit = "uW" -> DecNorm(Dec(v.m, v.e - 6))
               [] unit = "mW" -> DecNorm(Dec(v.m, v.e - 3))
               [] OTHER -> v

\* The lines of a report: the header of the software section and lines _PID_RE matches.
Header == [header |-> TRUE, id |-> 0, value |-> <<>>, unit |-> ""]

PidLine(i, v, u) ==
    [header |-> FALSE, id |-> i, value |-> v, unit |-> u]

\* The loop of _read_report: lines before the header are skipped, then the value of
\* every line whose id is among the tracked ones is added; impl tells which
\* _parse_value is called.
RECURSIVE read_lines(_, _, _, _, _)
read_lines(lines, pids, header_found, sample, impl) ==
    IF lines = <<>> THEN sample
    ELSE LET l == Head(lines)
         IN  IF ~header_found /\ ~l.header
             THEN read_lines(Tail(lines), pids, FALSE, sample, impl)
             ELSE read_lines(Tail(lines), pids, TRUE,
                             IF ~l.header /\ l.id \in pids
                             THEN DecAdd(sample, IF impl = "energy"
                                                 THEN parse_value(l.value, l.unit).val
                                                 ELSE parse_value_bench(l.value, l.unit))
                             ELSE sample,
                             impl)

\* PowertopProbe._read_report of pyutils.proc.energy
read_report(lines, pids) ==
    read_lines(lines, pids, FALSE, Dec(0, 0), "energy")

\* PowertopProbe._read_report of pyutils.proc.bench
read_report_bench(lines, pids) ==
    read_lines(lines, pids, FALSE, Dec(0, 0), "bench")

\* The report files of a directory in the order of their modification times, the
\* file k being the k-th that was written.
sorted_by_mtime(files) ==
    [k \in 1..Len(files) |-> files[k]]

\* file.dir_contents: the order of os.scandir, here the oldest or the newest first.
dir_contents(files, listing) ==
    IF listing = "oldest" THEN files
    ELSE [k \in 1..Len(files) |-> files[Len(files) + 1 - k]]

\* if samples and not samples[-1]: samples.pop()
kept_samples(smps) ==
    IF smps # <<>> /\ DecEq(smps[Len(smps)], Dec(0, 0))
    THEN SubSeq(smps, 1, Len(smps) - 1)
    ELSE smps

\* PowertopProbe.stop of pyutils.proc.energy: the samples it keeps, and the average
\* it returns as the pair of their sum and their number (0.0 when there is none).
stop(files, pids) ==
    LET smps == kept_samples([k \in 1..Len(files) |-> read_report(sorted_by_mtime(files)[k], pids)])
    IN  [impl |-> "energy", samples |-> smps,
         sum |-> DecSum(smps), len |-> IF smps # <<>> THEN Len(smps) ELSE 1]

\* PowertopProbe.stop of pyutils.proc.bench: the list of the samples that are not 0,
\* in the order of the directory.
stop_bench(files, listing, pids) ==
    LET smps == [k \in 1..Len(files) |-> read_report_bench(dir_contents(files, listing)[k], pids)]
        kept == SelectSeq(smps, LAMBDA x : ~DecEq(x, Dec(0, 0)))
    IN  [impl |-> "bench", samples |-> kept, sum |-> DecSum(kept), len |-> Len(kept)]

stop_call ==
    /\ ret' = stop(args.files, args.pids)
    /\ UNCHANGED <<taskState, osState, ctlState, nruns, last, envState, benchState, profState,
                   pollState, args, sysState>>

stop_bench_call ==
    /\ ret' = stop_bench(args.files, args.listing, args.pids)
    /\ UNCHANGED <<taskState, osState, ctlState, nruns, last, envState, benchState, profState,
                   pollState, args, sysState>>

\* The reports powertop can have written: no line of a tracked process, one, two, a
\* tracked line that stands before the header, a line of another process.
ReportFiles ==
    {<<Header>>,
     <<Header, PidLine(1, <<"2">>, "mW")>>,
     <<Header, PidLine(1, <<"2">>, "mW"), PidLine(2, <<"1">>, "W")>>,
     <<PidLine(1, <<"2">>, "mW"), Header>>,
     <<Header, PidLine(3, <<"5">>, "mW")>>}

InitReports ==
    /\ IdleInit
    /\ SysInit
    /\ output_action = "STORE"
    /\ args \in [files : UNION {[1..n -> ReportFiles] : n \in 0..MaxFiles},
                  listing : {"oldest", "newest"},
                  pids : {{1}, {1, 2}}]
    /\ ret = <<>>

NextReports ==
    \/ stop_call
    \/ stop_bench_call

SpecReports ==
    InitReports /\ [][NextReports]_vars

\* ---------------------------------------------------------------- PowertopProbe

\* The outcome of a call on a probe.
ProbeReturn(o, r, e) ==
    [op |-> o, res |-> r, err |-> e]

\* Faulty variant: no check of the effective user.
raise_if_not_root_skipped(uid) ==
    FALSE

\* exc.raise_if_not_root raises, with EPERM, when os.geteuid() is not 0.
raise_if_not_root(uid) ==
    uid # 0

\* PowertopProbe.__init__: tempfile.mkdtemp makes the report directory.
pt_init ==
    /\ interp = "running"
    /\ pt_state = "none"
    /\ pt_state' = "constructed"
    /\ report_dir' = "present"
    /\ ret' = ProbeReturn("init", "returned", "nil")
    /\ UNCHANGED <<taskState, osState, ctlState, nruns, last, envState, benchState, profState,
                   pollState, powermetricsState, regState, args, euid, interp, atexit_funcs, pt_energy_task, pt_pids,
                   reports, powertop>>

\* PowertopProbe.start up to the loop of _wait_for_new_reports: the check of the
\* user, _pids, then _start_energy_task, which does nothing once _energy_task is set
\* and otherwise registers _force_close, makes the directory and spawns powertop
\* (Task.__init__ raises when the executable is not found), then the reports of the
\* directory are removed.
pt_start ==
    /\ interp = "running"
    /\ pt_state \in {"constructed", "started"}
    /\ pt_energy_task \/ raise_if_not_root(euid) \/ atexit_funcs < MaxRuns
    /\ IF raise_if_not_root(euid)
       THEN /\ ret' = ProbeReturn("start", "raised", "EPERM")
            /\ UNCHANGED powertopState
       ELSE /\ pt_pids' = Some({})
            /\ IF pt_energy_task
               THEN /\ reports' = 0
                    /\ pt_state' = "starting"
                    /\ ret' = ProbeReturn("start", "", "nil")
                    /\ UNCHANGED <<atexit_funcs, pt_energy_task, report_dir, powertop>>
               ELSE /\ atexit_funcs' = atexit_funcs + 1
                    /\ report_dir' = "present"
                    /\ \E found \in BOOLEAN :
                        IF found
                        THEN /\ powertop' = "running"
                             /\ pt_energy_task' = TRUE
                             /\ reports' = 0
                             /\ pt_state' = "starting"
                             /\ ret' = ProbeReturn("start", "", "nil")
                        ELSE /\ ret' = ProbeReturn("start", "raised", "FileNotFoundError")
                             /\ UNCHANGED <<powertop, pt_energy_task, reports, pt_state>>
    /\ UNCHANGED <<taskState, osState, ctlState, nruns, last, envState, benchState, profState,
                   pollState, powermetricsState, regState, args, euid, interp>>

\* powertop writes a report file.
powertop_report ==
    /\ powertop = "running"
    /\ report_dir = "present"
    /\ reports < MaxFiles
    /\ reports' = reports + 1
    /\ UNCHANGED <<taskState, osState, ctlState, nruns, last, envState, benchState, profState,
                   pollState, powermetricsState, regState, args, ret, euid, interp, atexit_funcs, pt_state, pt_energy_task,
                   pt_pids, report_dir, powertop>>

\* The loop of _wait_for_new_reports ends with the first new report, and start returns.
pt_start_returns ==
    /\ interp = "running"
    /\ pt_state = "starting"
    /\ reports > 0
    /\ pt_state' = "started"
    /\ ret' = ProbeReturn("start", "returned", "nil")
    /\ UNCHANGED <<taskState, osState, ctlState, nruns, last, envState, benchState, profState,
                   pollState, powermetricsState, regState, args, euid, interp, atexit_funcs, pt_energy_task, pt_pids,
                   report_dir, reports, powertop>>

\* PowertopProbe.poll: the ids of the tree of the task, which is empty once the
\* process of the task is gone, are added to the tracked ones. Before the first
\* start that passed the check of the user, _task is None and its pid an AttributeError.
pt_poll ==
    /\ interp = "running"
    /\ pt_state \in {"constructed", "started"}
    /\ IF pt_pids = None
       THEN /\ ret' = ProbeReturn("poll", "raised", "AttributeError")
            /\ UNCHANGED pt_pids
       ELSE /\ \E tree \in {{}} \cup {{1} \cup c : c \in SUBSET (2..MaxProcs + 1)} :
                pt_pids' = Some(pt_pids[1] \cup tree)
            /\ ret' = ProbeReturn("poll", "returned", "nil")
    /\ UNCHANGED <<taskState, osState, ctlState, nruns, last, envState, benchState, profState,
                   pollState, powermetricsState, regState, args, euid, interp, atexit_funcs, pt_state, pt_energy_task,
                   report_dir, reports, powertop>>

\* PowertopProbe.stop reads the reports; powertop and the directory stay.
pt_stop ==
    /\ interp = "running"
    /\ pt_state \in {"constructed", "started"}
    /\ ret' = ProbeReturn("stop", "returned", "nil")
    /\ UNCHANGED <<taskState, osState, ctlState, nruns, last, envState, benchState, profState,
                   pollState, args, sysState>>

\* This program exits and the functions registered with atexit run:
\* PowertopProbe._force_close kills powertop and removes the directory.
py_exit ==
    /\ interp = "running"
    /\ interp' = "exited"
    /\ IF atexit_funcs > 0
       THEN /\ powertop' = IF pt_energy_task /\ powertop = "running" THEN "killed" ELSE powertop
            /\ report_dir' = "removed"
            /\ reports' = 0
       ELSE UNCHANGED <<powertop, report_dir, reports>>
    /\ ret' = ProbeReturn("exit", "returned", "nil")
    /\ UNCHANGED <<taskState, osState, ctlState, nruns, last, envState, benchState, profState,
                   pollState, powermetricsState, regState, args, euid, atexit_funcs, pt_state, pt_energy_task, pt_pids>>

\* A program run by root or by another user, no probe constructed.
InitPowertop ==
    /\ IdleInit
    /\ output_action = "STORE"
    /\ LibInit
    /\ PowertopInit
    /\ PowermetricsInit
    /\ RegistryInit
    /\ euid \in {0, 1}
    /\ interp = "running"

NextPowertop ==
    \/ pt_init
    \/ pt_start
    \/ powertop_report
    \/ pt_start_returns
    \/ pt_poll
    \/ pt_stop
    \/ py_exit

SpecPowertop ==
    InitPowertop /\ [][NextPowertop]_vars

\* ---------------------------------------------------------------- PowermetricsProbe

\* What PowermetricsProbe.stop returns: _samples, with the run, whether the wait for
\* the event timed out, and whether the parser thread of the run had finished.
SamplesReturn(how) ==
    [op |-> "pm_stop", res |-> "returned", err |-> "nil", run |-> pm_runs, how |-> how,
     samples |-> pm_samples, parsed |-> pm_thread[pm_runs] = "done"]

\* PowermetricsProbe.start: the check of the user, _samples = [], then the process
\* (find_executable raises when powermetrics is not found) and its parser thread.
\* The event is left as it is, and so is the process of an earlier start() that no
\* stop() has followed.
pm_start ==
    /\ interp = "running"
    /\ pm_pc \in {"idle", "started"}
    /\ pm_runs < MaxRuns
    /\ IF raise_if_not_root(euid)
       THEN /\ ret' = ProbeReturn("pm_start", "raised", "EPERM")
            /\ UNCHANGED powermetricsState
       ELSE /\ pm_samples' = <<>>
            /\ \E found \in BOOLEAN :
                IF found
                THEN /\ pm_runs' = pm_runs + 1
                     /\ pm_helper' = [pm_helper EXCEPT ![pm_runs + 1] = "running"]
                     /\ pm_thread' = [pm_thread EXCEPT ![pm_runs + 1] = "clear"]
                     /\ pm_pc' = "started"
                     /\ ret' = ProbeReturn("pm_start", "returned", "nil")
                     /\ UNCHANGED <<pm_event, pm_out, pm_pipe>>
                ELSE /\ ret' = ProbeReturn("pm_start", "raised", "FileNotFoundError")
                     /\ UNCHANGED <<pm_runs, pm_pc, pm_event, pm_helper, pm_out, pm_thread,
                                    pm_pipe>>
    /\ UNCHANGED <<taskState, osState, ctlState, nruns, last, envState, benchState, profState,
                   pollState, powertopState, regState, args, euid, interp>>

\* The number of blocks of the current run read so far, or still in its pipe.
blocks_written ==
    pm_out[pm_runs] + Cardinality({i \in 1..Len(pm_samples) : pm_samples[i] = pm_runs})

\* PowermetricsProbe.poll: SIGINFO makes the process of the run write a block of samples.
pm_poll ==
    /\ interp = "running"
    /\ pm_pc = "started"
    /\ blocks_written < MaxSamples
    /\ pm_out' = [pm_out EXCEPT ![pm_runs] = @ + 1]
    /\ ret' = ProbeReturn("pm_poll", "returned", "nil")
    /\ UNCHANGED <<taskState, osState, ctlState, nruns, last, envState, benchState, profState,
                   pollState, powertopState, regState, args, euid, interp, pm_runs, pm_pc,
                   pm_samples, pm_event, pm_helper, pm_thread, pm_pipe>>

\* PowermetricsProbe.stop, first half: terminate(), then the wait for the event.
pm_stop_begin ==
    /\ interp = "running"
    /\ pm_pc = "started"
    /\ pm_pc' = "stopping"
    /\ pm_helper' = [pm_helper EXCEPT ![pm_runs] = "terminated"]
    /\ ret' = ProbeReturn("pm_stop", "", "nil")
    /\ UNCHANGED <<taskState, osState, ctlState, nruns, last, envState, benchState, profState,
                   pollState, powertopState, regState, args, euid, interp, pm_runs,
                   pm_samples, pm_event, pm_out, pm_thread, pm_pipe>>

\* PowermetricsProbe.stop, second half: the event is set, _samples is returned.
pm_stop_event ==
    /\ pm_pc = "stopping"
    /\ pm_event
    /\ pm_pc' = "idle"
    /\ ret' = SamplesReturn("event")
    /\ UNCHANGED <<taskState, osState, ctlState, nruns, last, envState, benchState, profState,
                   pollState, powertopState, regState, args, euid, interp, pm_runs,
                   pm_samples, pm_event, pm_helper, pm_out, pm_thread, pm_pipe>>

\* PowermetricsProbe.stop, second half: the wait times out, the process is killed
\* and waited for, _samples is returned.
pm_stop_timeout ==
    /\ pm_pc = "stopping"
    /\ ~pm_event
    /\ pm_pc' = "idle"
    /\ pm_helper' = [pm_helper EXCEPT ![pm_runs] = "killed"]
    /\ ret' = SamplesReturn("timeout")
    /\ UNCHANGED <<taskState, osState, ctlState, nruns, last, envState, benchState, profState,
                   pollState, powertopState, regState, args, euid, interp, pm_runs,
                   pm_samples, pm_event, pm_out, pm_thread, pm_pipe>>

\* _parse_profiler of the thread of run g, first statement: the event is cleared;
\* the loop then reads the pipe of the process _energy_task names at that time.
parse_profiler_clear(g) ==
    /\ pm_thread[g] = "clear"
    /\ pm_event' = FALSE
    /\ pm_thread' = [pm_thread EXCEPT ![g] = "read"]
    /\ pm_pipe' = [pm_pipe EXCEPT ![g] = pm_runs]
    /\ UNCHANGED <<taskState, osState, ctlState, nruns, last, envState, benchState, profState,
                   pollState, powertopState, regState, args, ret, euid, interp, pm_runs, pm_pc,
                   pm_samples, pm_helper, pm_out>>

\* _parse_profiler, the loop: a block of samples is read and _parse_tasks appends its
\* sample to the list _samples names at that time.
parse_profiler_block(g) ==
    /\ pm_thread[g] = "read"
    /\ pm_out[pm_pipe[g]] > 0
    /\ pm_out' = [pm_out EXCEPT ![pm_pipe[g]] = @ - 1]
    /\ pm_samples' = Append(pm_samples, pm_pipe[g])
    /\ UNCHANGED <<taskState, osState, ctlState, nruns, last, envState, benchState, profState,
                   pollState, powertopState, regState, args, ret, euid, interp, pm_runs, pm_pc,
                   pm_event, pm_helper, pm_thread, pm_pipe>>

\* _parse_profiler, the end of the loop: the pipe is at its end once its process is gone.
parse_profiler_eof(g) ==
    /\ pm_thread[g] = "read"
    /\ pm_out[pm_pipe[g]] = 0
    /\ pm_helper[pm_pipe[g]] # "running"
    /\ pm_thread' = [pm_thread EXCEPT ![g] = "comm"]
    /\ UNCHANGED <<taskState, osState, ctlState, nruns, last, envState, benchState, profState,
                   pollState, powertopState, regState, args, ret, euid, interp, pm_runs, pm_pc,
                   pm_samples, pm_event, pm_helper, pm_out, pm_pipe>>

\* _parse_profiler, the last two statements: communicate() on the process _energy_task
\* names at that time reads its pipe to the end and waits for it, then the event is set.
parse_profiler_set(g) ==
    /\ pm_thread[g] = "comm"
    /\ pm_helper[pm_runs] # "running"
    /\ pm_out' = [pm_out EXCEPT ![pm_runs] = 0]
    /\ pm_event' = TRUE
    /\ pm_thread' = [pm_thread EXCEPT ![g] = "done"]
    /\ UNCHANGED <<taskState, osState, ctlState, nruns, last, envState, benchState, profState,
                   pollState, powertopState, regState, args, ret, euid, interp, pm_runs, pm_pc,
                   pm_samples, pm_helper, pm_pipe>>

\* A program run by root or by another user, with a PowermetricsProbe as constructed.
InitPowermetrics ==
    /\ IdleInit
    /\ output_action = "STORE"
    /\ LibInit
    /\ PowertopInit
    /\ PowermetricsInit
    /\ RegistryInit
    /\ euid \in {0, 1}
    /\ interp = "running"

NextPowermetrics ==
    \/ pm_start
    \/ pm_poll
    \/ pm_stop_begin
    \/ pm_stop_event
    \/ pm_stop_timeout
    \/ \E g \in 1..MaxRuns : parse_profiler_clear(g)
    \/ \E g \in 1..MaxRuns : parse_profiler_block(g)
    \/ \E g \in 1..MaxRuns : parse_profiler_eof(g)
    \/ \E g \in 1..MaxRuns : parse_profiler_set(g)

SpecPowermetrics ==
    InitPowermetrics /\ [][NextPowermetrics]_vars

\* ---------------------------------------------------------------- start of both probes

\* The two probes started and stopped by a program run by root or by another user.
NextStart ==
    \/ pt_init
    \/ pt_start
    \/ powertop_report
    \/ pt_start_returns
    \/ py_exit
    \/ pm_start
    \/ pm_stop_begin
    \/ pm_stop_timeout
    \/ \E g \in 1..MaxRuns : parse_profiler_clear(g)

SpecStart ==
    InitPowermetrics /\ [][NextStart]_vars

\* ---------------------------------------------------------------- Task._ALL

\* A thread enters _cleanup_tasks: the set comprehension takes an iterator of _ALL,
\* which remembers the size of the set.
cleanup_tasks(t, o, x) ==
    reg_op' = [reg_op EXCEPT ![t] = [pc |-> "iter", op |-> o, task |-> x,
                                     size |-> Cardinality(ALL), todo |-> ALL, dead |-> {},
                                     res |-> "", val |-> {}]]

\* Task.__init__, up to its last statement, _add_task, which starts with _cleanup_tasks.
init_begin(t) ==
    /\ reg_op[t].pc = "idle"
    /\ ntasks < MaxTasks
    /\ ntasks' = ntasks + 1
    /\ cleanup_tasks(t, "init", ntasks + 1)
    /\ UNCHANGED <<taskState, osState, ctlState, nruns, last, envState, benchState, profState,
                   pollState, powertopState, powermetricsState, args, ret, euid, interp, ALL,
                   completed_tasks, task_proc>>

\* get_running, and terminate_all, which calls it first, start with _cleanup_tasks.
get_running_begin(t) ==
    /\ reg_op[t].pc = "idle"
    /\ \E o \in {"get_running", "terminate_all"} : cleanup_tasks(t, o, 0)
    /\ UNCHANGED <<taskState, osState, ctlState, nruns, last, envState, benchState, profState,
                   pollState, powertopState, powermetricsState, args, ret, euid, interp, ALL,
                   completed_tasks, ntasks, task_proc>>

\* One step of the iterator of the comprehension of _cleanup_tasks: RuntimeError when
\* the size of the set is not the one it remembers; else the next task is taken and
\* kept when it is completed; at the end difference_update removes the kept ones.
cleanup_next(t) ==
    /\ reg_op[t].pc = "iter"
    /\ IF Cardinality(ALL) # reg_op[t].size
       THEN /\ reg_op' = [reg_op EXCEPT ![t].pc = "raised", ![t].res = "RuntimeError"]
            /\ UNCHANGED ALL
       ELSE IF reg_op[t].todo = {}
       THEN /\ ALL' = ALL \ reg_op[t].dead
            /\ reg_op' = [reg_op EXCEPT ![t].pc = "cleaned"]
       ELSE /\ \E x \in reg_op[t].todo :
                reg_op' = [reg_op EXCEPT ![t].todo = @ \ {x},
                                         ![t].dead = IF x \in completed_tasks
                                                     THEN @ \cup {x} ELSE @]
            /\ UNCHANGED ALL
    /\ UNCHANGED <<taskState, osState, ctlState, nruns, last, envState, benchState, profState,
                   pollState, powertopState, powermetricsState, args, ret, euid, interp,
                   completed_tasks, ntasks, task_proc>>

\* After _cleanup_tasks: _add_task adds the task, get_running copies the set to a list
\* (terminate_all then signals each task of it and swallows what that raises).
after_cleanup(t) ==
    /\ reg_op[t].pc = "cleaned"
    /\ IF reg_op[t].op = "init"
       THEN /\ ALL' = ALL \cup {reg_op[t].task}
            /\ reg_op' = [reg_op EXCEPT ![t].pc = "idle", ![t].res = "returned"]
       ELSE /\ reg_op' = [reg_op EXCEPT ![t].pc = "idle", ![t].res = "returned",
                                        ![t].val = ALL]
            /\ UNCHANGED ALL
    /\ UNCHANGED <<taskState, osState, ctlState, nruns, last, envState, benchState, profState,
                   pollState, powertopState, powermetricsState, args, ret, euid, interp,
                   completed_tasks, ntasks, task_proc>>

\* The tasks whose constructor has returned.
Constructed ==
    {x \in 1..ntasks : \A t \in Threads :
        ~(reg_op[t].op = "init" /\ reg_op[t].task = x /\ reg_op[t].pc # "idle")}

\* Task.run up to Popen: the process of the task is spawned.
task_spawns(x) ==
    /\ x \in Constructed
    /\ task_proc[x] = "none"
    /\ task_proc' = [task_proc EXCEPT ![x] = "running"]
    /\ UNCHANGED <<taskState, osState, ctlState, nruns, last, envState, benchState, profState,
                   pollState, powertopState, powermetricsState, args, ret, euid, interp, ALL,
                   completed_tasks, ntasks, reg_op>>

\* The process of a task exits; the task is not completed before its wait has ended.
task_exits(x) ==
    /\ task_proc[x] = "running"
    /\ task_proc' = [task_proc EXCEPT ![x] = "exited"]
    /\ UNCHANGED <<taskState, osState, ctlState, nruns, last, envState, benchState, profState,
                   pollState, powertopState, powermetricsState, args, ret, euid, interp, ALL,
                   completed_tasks, ntasks, reg_op>>

\* Task.wait ends for a spawned task, whose process has exited or has been killed by
\* the wait: its completed is true from then on.
task_completes(x) ==
    /\ task_proc[x] \in {"running", "exited"}
    /\ x \notin completed_tasks
    /\ completed_tasks' = completed_tasks \cup {x}
    /\ task_proc' = [task_proc EXCEPT ![x] = "exited"]
    /\ UNCHANGED <<taskState, osState, ctlState, nruns, last, envState, benchState, profState,
                   pollState, powertopState, powermetricsState, args, ret, euid, interp, ALL,
                   ntasks, reg_op>>

\* Threads of a program that has constructed no task.
InitRegistry ==
    /\ IdleInit
    /\ output_action = "STORE"
    /\ LibInit
    /\ SysInit

NextRegistry ==
    \/ \E t \in Threads : init_begin(t)
    \/ \E t \in Threads : get_running_begin(t)
    \/ \E t \in Threads : cleanup_next(t)
    \/ \E t \in Threads : after_cleanup(t)
    \/ \E x \in 1..MaxTasks : task_spawns(x)
    \/ \E x \in 1..MaxTasks : task_exits(x)
    \/ \E x \in 1..MaxTasks : task_completes(x)

SpecRegistry ==
    InitRegistry /\ [][NextRegistry]_vars

\* ---------------------------------------------------------------- Task.terminate_all

\* The loop of terminate_all over the tasks q that get_running returned:
\* task.send_signal(sig, children=True) on each, whose kill may raise; the error is
\* caught and the loop goes on.  n counts the calls of kill that raised.
RECURSIVE signal_tasks(_, _, _, _)
signal_tasks(ps, q, gone, n) ==
    IF q = <<>> THEN [procs |-> ps, caught |-> n]
    ELSE IF ~send_signal_guard(Head(q).proc, Head(q).completed)
    THEN signal_tasks(ps, Tail(q), gone, n)
    ELSE LET p == Head(q).proc[1]
             r == kill(ps, p, TRUE, gone \cap Descendants(ps, p))
         IN  signal_tasks(r.procs, Tail(q), gone, IF r.raised THEN n + 1 ELSE n)

\* What get_running returns for the registered tasks: the ones that are not completed.
RECURSIVE get_running(_)
get_running(tasks) ==
    IF tasks = <<>> THEN <<>>
    ELSE IF Head(tasks).completed # None THEN get_running(Tail(tasks))
    ELSE <<Head(tasks)>> \o get_running(Tail(tasks))

\* Task.terminate_all(kill): SIGKILL or SIGTERM to every task get_running returns.
terminate_all(ps, tasks, gone, use_kill) ==
    LET r == signal_tasks(ps, get_running(tasks), gone, 0)
    IN  [res |-> "returned", sig |-> IF use_kill THEN "SIGKILL" ELSE "SIGTERM",
         procs |-> r.procs, caught |-> r.caught]

terminate_all_call ==
    /\ ret = <<>>
    /\ ret' = terminate_all(args.ps, args.tasks, args.gone, args.kill)
    /\ UNCHANGED <<taskState, osState, ctlState, nruns, last, envState, benchState, profState,
                   pollState, args, sysState>>

\* A registered task: never started, or with the process it has spawned, whose parent
\* is this program, and completed or not.
RegisteredTasks(ps) ==
    [proc : {None} \cup {Some(p) : p \in {q \in DOMAIN ps : ps[q].ppid = 0}},
     completed : {None, Some(0)}]

\* The registry in some order, with distinct processes for distinct tasks.
Registries(ps) ==
    {q \in UNION {[1..n -> RegisteredTasks(ps)] : n \in 0..MaxTasks} :
        \A i, j \in DOMAIN q : (i # j /\ q[i].proc # None) => q[i].proc # q[j].proc}

InitTerminate ==
    /\ IdleInit
    /\ SysInit
    /\ output_action = "STORE"
    /\ \E ps \in ProcTables :
        args \in [ps : {ps}, tasks : Registries(ps), gone : SUBSET DOMAIN ps, kill : BOOLEAN]
    /\ ret = <<>>

NextTerminate ==
    terminate_all_call

SpecTerminate ==
    InitTerminate /\ [][NextTerminate]_vars

\* ---------------------------------------------------------------- Task.run and stdin

\* What happens in the wait of run(): the process exits, the wait times out, or
\* another error is raised.
WaitOutcomes == {"exit", "timeout", "failure"}

\* The except clause of Task.run: the file is closed when one was opened, and the
\* error is raised again.
run_except(handle, e, compl) ==
    [res |-> "raised", err |-> e, stdin |-> IF handle = "open" THEN "closed" ELSE handle,
     completed |-> compl]

\* Task.run as far as the file of input_path goes.  The file is a local variable of
\* run: when run returns nothing closes it, and it stays open unless the interpreter
\* finalizes the unreferenced file object (collected).
run_stdin(input_path, readable, popen_ok, do_wait, outcome, collected) ==
    IF Truthy(input_path) /\ ~readable
    THEN run_except("none", "OSError", FALSE)
    ELSE LET handle == IF Truthy(input_path) THEN "open" ELSE "none"
         IN  IF ~popen_ok THEN run_except(handle, "OSError", FALSE)
             ELSE IF do_wait /\ outcome = "timeout"
             THEN run_except(handle, "TimeoutExpired", TRUE)
             ELSE IF do_wait /\ outcome = "failure"
             THEN run_except(handle, "Exception", TRUE)
             ELSE [res |-> "returned", err |-> "nil",
                   stdin |-> IF handle = "open" /\ collected THEN "closed" ELSE handle,
                   completed |-> do_wait]

run_stdin_call ==
    /\ ret = <<>>
    /\ ret' = run_stdin(args.input_path, args.readable, args.popen_ok, args.wait,
                        args.outcome, args.collected)
    /\ UNCHANGED <<taskState, osState, ctlState, nruns, last, envState, benchState, profState,
                   pollState, args, sysState>>

\* A Task with or without an input path, whose file can be opened or not.
InitStdin ==
    /\ IdleInit
    /\ SysInit
    /\ output_action = "STORE"
    /\ args \in [input_path : {None, Some(<<>>), Some(<<"f">>)}, readable : BOOLEAN,
                  popen_ok : BOOLEAN, wait : BOOLEAN, outcome : WaitOutcomes,
                  collected : BOOLEAN]
    /\ ret = <<>>

NextStdin ==
    run_stdin_call

SpecStdin ==
    InitStdin /\ [][NextStdin]_vars

\* ---------------------------------------------------------------- properties

\* The Popen's process is running.
Live ==
    process # None /\ Running(procs, process[1])

\* Every stored result of the life cycle is one raise_if_failed is checked on.
StoredResultShape ==
    completed \in StoredResults(LifeOutputs)

\* C1: the completed result is absent while the process is running, is set once when
\* the process exits and is never replaced or modified afterwards; pid stays readable
\* after completion.
C1_CompletedResultSetOnce ==
    [][/\ (completed # None => completed' = completed)
       /\ (Live' => completed' = None)
       /\ (completed' # None => pid' # None)]_vars

\* C2: the life cycle only moves forward: once the Task has completed and its process
\* has ended, no later operation gives it a running process again.
C2_NoProcessAfterCompletion ==
    [][(completed # None /\ ~Live) => ~Live']_vars

\* C3: when a wait times out the kill reaches the whole tree and a timeout error with
\* the captured output is raised; no process of the tree is alive once it is raised.
C3_TimeoutKillsTree ==
    (last.op \in {"run", "wait"} /\ last.why = "timeout") =>
        /\ last.res = "raised"
        /\ last.err = "TimeoutExpired"
        /\ \A q \in TaskTree(procs, process[1]) : ~Running(procs, q)

\* C4: when a wait fails otherwise, the process tree is killed before the error reaches
\* the caller: no process spawned by the Task runs after run/wait has raised.
C4_FailureKillsTree ==
    (last.op \in {"run", "wait"} /\ last.res = "raised" /\ last.why = "failure") =>
        \A q \in TaskTree(procs, process[1]) : ~Running(procs, q)

\* C5: the exit handler of a run_async call is invoked exactly once, after the
\* background run has finished, on every outcome, and its error argument is nil
\* exactly when the run raised no error.
C5_ExitHandlerOnce ==
    /\ exit_handler => handler_calls = (IF thread = "bg" THEN 0 ELSE 1)
    /\ last.op = "exit_handler" =>
        /\ pc = "idle"
        /\ thread = "caller"
        /\ (last.err = "nil" <=> last.res = "returned")

C5_Witness ==
    /\ last.op = "exit_handler"
    /\ last.err = "TimeoutExpired"
    /\ last.why = "timeout"
    /\ handler_calls = 1

\* C6: send_signal delivers the signal to the process (and to its descendants when
\* children is true) only while the task is running; on a task never started or
\* already completed it delivers nothing and leaves the Task's state unchanged.
C6_SignalOnlyWhileRunning ==
    [][last'.op = "send_signal" =>
        /\ taskState' = taskState
        /\ (last'.sent > 0 => (process # None /\ completed = None))
        /\ ((process = None \/ completed # None) =>
                (last'.sent = 0 /\ last'.res = "returned" /\ osState' = osState))
        /\ ((process # None /\ completed = None /\ last'.res = "returned") =>
                last'.sent = 1 + (IF last'.children
                                  THEN Cardinality(Descendants(procs, process[1]))
                                  ELSE 0))]_vars

C6_Witness ==
    /\ last.op = "send_signal"
    /\ completed # None
    /\ Live
    /\ last.sent = 0

\* C7: raise_if_failed raises if and only if the exit code is non-zero, or
\* ensure_output is true and the Task holds no stdout text (none stored, or the empty
\* string); in every other case, a Task without exit code included, it returns.
C7_RaisesIffFailed ==
    last.op = "raise_if_failed" =>
        (last.res = "raised" <=>
            \/ (exit_code # None /\ exit_code[1] # 0)
            \/ (last.ensure_output /\ (stdout = None \/ stdout = Some(<<>>))))

C7_Witness ==
    /\ last.op = "raise_if_failed"
    /\ last.res = "raised"
    /\ last.ensure_output
    /\ exit_code = Some(0)
    /\ stdout = Some(<<>>)
    /\ stderr # None /\ stderr # Some(<<>>)

\* The summary line that names the process and its exit code.
ExitCodeSummary ==
    <<"Process \"", name, "\" returned exit code: ",
      IF exit_code = None THEN "None" ELSE ToString(exit_code[1])>>

\* The summary line that names the process and says it gave no output.
NoOutputSummary ==
    <<"Process \"", name, "\" returned no output.">>

\* The given lines without the empty ones.
Present(lines) ==
    LET NonEmpty(x) == x # <<>>
    IN  SelectSeq(lines, NonEmpty)

\* The text of an optional string, "" for None.
Text(o) ==
    IF o = None THEN <<>> ELSE o[1]

\* C8 as stated: the message of the error is, in this order, the caller's message, the
\* summary naming the process and its exit code, and the captured stderr, or the
\* captured stdout when stderr is empty; absent parts are omitted.
C8_MessageAsStated ==
    (last.op = "raise_if_failed" /\ last.res = "raised") =>
        last.msg = join(Present(<<Text(last.message), ExitCodeSummary,
                                  IF Text(stderr) # <<>> THEN Text(stderr)
                                  ELSE Text(stdout)>>))

\* C8, amended: the message is made of lines joined by a newline, in this order: the
\* caller's message; the summary, which names the process and its exit code when the
\* exit code is non-zero and otherwise names the process and says it returned no
\* output; the captured stderr stripped of leading and trailing whitespace, or, when
\* that is empty, the captured stdout stripped likewise; empty parts are omitted.
C8_MessageParts ==
    (last.op = "raise_if_failed" /\ last.res = "raised") =>
        LET summary == IF exit_code # None /\ exit_code[1] # 0
                       THEN ExitCodeSummary ELSE NoOutputSummary
            e == strip(Text(stderr))
            o == strip(Text(stdout))
        IN  last.msg = join(Present(<<Text(last.message), summary,
                                      IF e # <<>> THEN e ELSE o>>))

C8_Witness ==
    /\ last.op = "raise_if_failed"
    /\ last.res = "raised"
    /\ last.message = Some(<<"m">>)
    /\ exit_code = Some(1)
    /\ stderr = Some(<<" ">>)
    /\ stdout = Some(<<" ", "a">>)
    /\ last.msg = <<"m", "\n", "Process \"", "proc", "\" returned exit code: ", "1",
                    "\n", "a">>

\* C9: under STORE the stored stdout and stderr are the process's output without its
\* trailing whitespace: they never end in whitespace, and each is non-empty exactly
\* when the process wrote to that stream.
C9_StoredOutputTrimmed ==
    (last.op \in {"run", "wait"} /\ last.why = "exit" /\ output_action = "STORE") =>
        /\ stdout = Some(rstrip(pipe_out))
        /\ stderr = Some(rstrip(pipe_err))
        /\ (stdout[1] # <<>> <=> pipe_out # <<>>)
        /\ (stderr[1] # <<>> <=> pipe_err # <<>>)

\* C10: run and wait never raise because of the exit status: a process that runs to
\* completion, with whatever exit code and output, yields a completed Task without an
\* error, and the exit-status error comes from raise_if_failed alone.
C10_ExitStatusNeverRaises ==
    /\ (last.op \in {"run", "wait"} /\ last.why = "exit") =>
        (last.res = "returned" /\ completed # None /\ exit_code = Some(pstatus))
    /\ (last.op \in {"run", "wait"} /\ last.res = "raised") =>
        last.err \in {"OSError", "AttributeError", "TimeoutExpired", "NoSuchProcess",
                      "Exception"}
    /\ (last.err = "IOError" => last.op = "raise_if_failed")

C10_Witness ==
    /\ last.op = "run"
    /\ last.why = "exit"
    /\ last.res = "returned"
    /\ exit_code = Some(1)
    /\ stdout = Some(<<>>)

\* The watchdog has seen its deadline pass with the completion event not set.
WatchdogFired ==
    wd \in {"expired", "flagged", "killed"}

\* C11: when the watchdog's deadline expires before the process has been reaped, the
\* watchdog kills the whole process tree of the task, the task's process and every
\* descendant: once its signal is delivered no process of the tree is running.
C11_WatchdogKillsTree ==
    (wd = "killed" /\ last.op = "send_signal" /\ last.sent > 0) =>
        \A q \in TaskTree(procs, process[1]) : ~Running(procs, q)

\* C12: exactly one side of the race in Benchmark.run wins: run returns normally only
\* when the watchdog has not fired, and a timeout error is raised only for a process
\* the watchdog has killed, never for one that exited on its own.
C12_ExactlyOneSideWins ==
    /\ blast.res = "returned" => (~WatchdogFired /\ ~timeout_occurred)
    /\ blast.err = "TimeoutExpired" =>
        (wd = "killed" /\ pstatus = signal_returncode("SIGKILL"))

\* C13: the watchdog's kill reaches the process in every interleaving, so that
\* Benchmark.run with a timeout ends even when the process never exits on its own:
\* the process is not running in a run whose watchdog has fired and finished.
C13_WatchdogKillReachesProcess ==
    (wd = "killed" /\ bpc # "idle") => ~Live

\* The peak resident memory of the process in bytes: the OS reports bytes on Darwin
\* and kilobytes on Linux.
PeakBytes ==
    CASE platform = "Darwin" -> maxrss
      [] platform = "Linux" -> maxrss * 1024

\* C14: after a Benchmark.run that did not time out, max_memory is the peak resident
\* memory of the process in bytes on every platform, and it is 0 only when no usage
\* record was obtained.
C14_MaxMemoryInBytes ==
    blast.res = "returned" =>
        /\ rusage # None => max_memory = PeakBytes
        /\ max_memory = 0 <=> rusage = None

C14_Witness ==
    /\ blast.res = "returned"
    /\ platform = "Linux"
    /\ rusage = Some(MaxRss)
    /\ max_memory = MaxRss * 1024

\* EnergyProfiler.run has ended, by returning or by raising.
ProfilerRunEnded ==
    epc = "idle" /\ elast.res # ""

\* C15: on every exit path of EnergyProfiler.run, stop() is called on every attached
\* probe whose start() was called: when run has ended no started probe is left
\* without its stop().
C15_StartedProbesStopped ==
    ProfilerRunEnded => started \subseteq stopped

\* C16: when the profiler stops a probe, a single value returned by stop() is written
\* as the power of every recorded sample; a sequence as long as the recorded samples
\* is written element by element in order; a sequence of any other length makes the
\* run fail with an error and nothing of it is written.  The intervals stay as they are.
C16_StopResultReconciled ==
    [][stop_ret' # NoStop =>
        LET old == samples[stop_ret'.probe][1]
            new == samples'[stop_ret'.probe][1]
            v == stop_ret'.v
        IN  /\ Len(new) = Len(old)
            /\ \A k \in DOMAIN old : new[k].interval = old[k].interval
            /\ \A q \in Probes \ {stop_ret'.probe} : samples'[q] = samples[q]
            /\ CASE stop_ret'.kind = "float" ->
                        /\ \A k \in DOMAIN new : new[k].power = v[1]
                        /\ elast'.err # "ValueError"
                 [] stop_ret'.kind = "seq" /\ Len(v) = Len(old) ->
                        /\ \A k \in DOMAIN new : new[k].power = v[k]
                        /\ elast'.err # "ValueError"
                 [] OTHER ->
                        /\ new = old
                        /\ elast' = BenchResult("raised", "ValueError")
                        /\ epc' = "idle"]_vars

C16_Witness ==
    /\ stop_ret # NoStop
    /\ stop_ret.kind = "seq"
    /\ stop_ret.v = <<1, 2>>
    /\ samples[stop_ret.probe] = Some(<<EnergySample(1, 1), EnergySample(2, 1)>>)

\* C19: every polling thread stops polling once the task's run has ended, however it
\* ended: when EnergyProfiler.run has ended, a thread still in its loop finds the task
\* completed at its next test and leaves the loop.
C19_PollingStopsAfterRun ==
    ProfilerRunEnded =>
        \A p \in Probes : thr[p] \in {"test", "sleep", "polled"} => is_completed

\* C17: for every attached probe, score(probe) is the sum over the probe's recorded
\* samples of power * interval, divided by 1000; it is 0 when the probe recorded no
\* sample.
C17_ScoreIsEnergySum ==
    score_ret # NoScore =>
        /\ score_ret.res = "returned"
        /\ score_ret.num * 1000 = sum_energy(samples_of(score_ret.probe)) * score_ret.den
        /\ samples_of(score_ret.probe) = <<>> => score_ret.num = 0

\* The time the polling thread slept in the latest turn of its loop.
Slept ==
    IF sleep_ns > 0 THEN sleep_ns ELSE 0

\* C18: the polling thread is drift-compensated: the k-th poll is at k * interval after
\* the start of the probe, and after a turn whose processing took d the next sleep is
\* interval - d, which is 0 when d >= interval.
C18_DriftCompensated ==
    thr[1] = "sleep" =>
        /\ cur_ns = (polled[1] + 1) * interval * NsPerMs
        /\ polled[1] >= 1 =>
            Slept = IF proc_ns >= interval * NsPerMs THEN 0 ELSE interval * NsPerMs - proc_ns

\* C20: with the Zero probe at interval I and a task active for D, the run records
\* between floor(D / I) and floor(D / I) + 1 samples, all with power 0.0.
C20_ZeroProbeSampleCount ==
    (epc = "idle" /\ elast.res # "" /\ thr[1] = "done") =>
        LET n == Len(samples[1][1])
            q == done_ns \div (interval * NsPerMs)
        IN  /\ elast.res = "returned"
            /\ q <= n
            /\ n <= q + 1
            /\ \A k \in 1..n : samples[1][1][k].power = 0

\* The power of ten that takes a value in the unit to watts.
WattExponent(u) ==
    CASE u = "uW" -> -6 [] u = "mW" -> -3 [] u = "W" -> 0

\* C25: the value parser converts a numeric text and a unit to watts (uW * 1e-6,
\* mW * 1e-3, W * 1), and returns 0.0 without raising for an unparsable text or an
\* unknown unit.
C25_ParseValueToWatts ==
    ret # <<>> =>
        /\ ret.res = "returned"
        /\ (IsFloatText(args.value) /\ args.unit \in {"uW", "mW", "W"}) =>
                DecEq(ret.val, Dec(digits_of(args.value),
                                   WattExponent(args.unit) - fraction_digits(args.value)))
        /\ (~IsFloatText(args.value) \/ args.unit = "GW") => ret.val = Dec(0, 0)

C25_Witness ==
    /\ ret # <<>>
    /\ args.value = <<"1", "2", ".", "5">>
    /\ args.unit = "uW"
    /\ ret.val = Dec(125, -7)

\* The elements of a sequence.
Range(q) ==
    {q[i] : i \in DOMAIN q}

\* C29: get_pid_tree(pid) is the list that starts with pid, followed by the ids of
\* all its live descendants (and their thread ids when asked for); it is [pid] for a
\* live process without children and [] when there is no process with that pid.
C29_PidTree ==
    ret # <<>> =>
        LET live == Descendants(args.ps, args.pid) \ ret.gone
        IN  /\ ~Exists(args.ps, args.pid) => ret.val = <<>>
            /\ Exists(args.ps, args.pid) =>
                /\ ret.val # <<>>
                /\ Head(ret.val) = args.pid
                /\ live \subseteq Range(Tail(ret.val))
                /\ Range(Tail(ret.val)) \subseteq Descendants(args.ps, args.pid) \cup
                        (IF args.include_tids THEN {args.pid} ELSE {})
            /\ (Running(args.ps, args.pid) /\ Descendants(args.ps, args.pid) = {}
                    /\ ~args.include_tids) => ret.val = <<args.pid>>

\* C30: kill(pid, sig, children=True) delivers the signal to every descendant of pid
\* and then to pid, best-effort: a descendant that exited after the enumeration is
\* skipped without an error, and the others and pid still get the signal.
C30_KillBestEffort ==
    [][(/\ last'.op = "send_signal"
        /\ last'.children
        /\ send_signal_guard(process, completed)
        /\ Exists(procs, process[1]))
       => /\ last'.res = "returned"
          /\ \A q \in Descendants(procs, process[1]) \cup {process[1]} : ~Running(procs', q)]_vars

\* The rows of the chunk for the processes of the task, and its DEAD_TASKS rows.
TreeRows ==
    SelectSeq(args.lines, LAMBDA l : l.ok /\ l.pid \in Range(args.pids))

DeadRows ==
    SelectSeq(args.lines, LAMBDA l : l.ok /\ l.pid = dead_tasks_pid)

\* The running mean of the samples so far, and what the DEAD_TASKS value is compared to.
RunningMean ==
    mean(args.samples)

Exceeds(sc) ==
    RatGt(sc, Rat(Len(args.samples) * RunningMean.num, RunningMean.den * 2))

\* C22 as stated: the sample of a chunk is the sum of the rows of the task's process
\* tree; the DEAD_TASKS row is used only when there is no such row, and its value is
\* replaced by the running mean whenever it exceeds sample_count * running_mean / 2.
C22_SampleAsStated ==
    ret # <<>> =>
        /\ TreeRows # <<>> =>
            /\ Len(ret.samples) = Len(args.samples) + 1
            /\ RatEq(ret.samples[Len(ret.samples)], RatSum([i \in DOMAIN TreeRows |-> TreeRows[i].score]))
        /\ (TreeRows = <<>> /\ DeadRows # <<>>) =>
            /\ Len(ret.samples) = Len(args.samples) + 1
            /\ RatEq(ret.samples[Len(ret.samples)],
                     IF Exceeds(DeadRows[1].score) THEN RunningMean ELSE DeadRows[1].score)

\* C22 amended: the value of the DEAD_TASKS row is replaced by the running mean only
\* when at least two samples have been recorded and it exceeds
\* sample_count * running_mean / 2; the samples recorded before are left as they are.
C22_SampleOfChunk ==
    ret # <<>> =>
        /\ SubSeq(ret.samples, 1, Len(args.samples)) = args.samples
        /\ TreeRows # <<>> =>
            /\ Len(ret.samples) = Len(args.samples) + 1
            /\ RatEq(ret.samples[Len(ret.samples)], RatSum([i \in DOMAIN TreeRows |-> TreeRows[i].score]))
        /\ (TreeRows = <<>> /\ DeadRows # <<>>) =>
            /\ Len(ret.samples) = Len(args.samples) + 1
            /\ RatEq(ret.samples[Len(ret.samples)],
                     IF Len(args.samples) > 1 /\ Exceeds(DeadRows[1].score)
                     THEN RunningMean ELSE DeadRows[1].score)

C22_Witness ==
    /\ ret # <<>>
    /\ args.samples = <<Rat(1, 1), Rat(1, 1)>>
    /\ args.lines = <<[ok |-> TRUE, pid |-> dead_tasks_pid, score |-> Rat(4, 1)]>>
    /\ Len(ret.samples) = 3
    /\ RatEq(ret.samples[3], Rat(1, 1))

\* C23: every poll accounts for exactly one sample, so that stop() returns as many
\* samples as there were polls: every chunk the power tool flushes for a poll adds
\* exactly one sample, also a chunk with no row of the task and no DEAD_TASKS row.
C23_OneSamplePerChunk ==
    ret # <<>> => Len(ret.samples) = Len(args.samples) + 1

\* The sum of the values, in watts, of the lines of a report file that the software
\* section holds for the tracked ids.
RECURSIVE TrackedSum(_, _)
TrackedSum(lines, seen) ==
    IF lines = <<>> THEN Dec(0, 0)
    ELSE LET l == Head(lines)
             rest == TrackedSum(Tail(lines), seen \/ l.header)
         IN  IF seen /\ ~l.header /\ l.id \in args.pids
             THEN DecAdd(Dec(digits_of(l.value), WattExponent(l.unit) - fraction_digits(l.value)), rest)
             ELSE rest

FileSamples ==
    [k \in 1..Len(args.files) |-> TrackedSum(args.files[k], FALSE)]

\* C24: stop() of power-tool probe B makes one sample of every report file, the sum
\* of the lines of the tracked ids, and discards only a zero sample that is the last
\* one: zero samples in any other position are kept.
C24_OnlyTrailingZeroDropped ==
    ret # <<>> =>
        LET n == Len(FileSamples)
            dropped == n > 0 /\ DecEq(FileSamples[n], Dec(0, 0))
            expected == IF dropped THEN SubSeq(FileSamples, 1, n - 1) ELSE FileSamples
        IN  /\ Len(ret.samples) = Len(expected)
            /\ \A k \in 1..Len(expected) : DecEq(ret.samples[k], expected[k])

\* C27: the directory a PowertopProbe has made for its reports is removed on stop or
\* at the exit of the process, for any sequence of calls, also when the probe was
\* never started or its start() failed: it does not exist once the process has exited.
C27_ReportDirRemoved ==
    interp = "exited" => report_dir # "present"

\* C21: a probe can be used for a second run: what stop() returns in a run is what it
\* returns for a fresh instance, that is only samples of the output of that run, and,
\* when the wait for the completion event did not time out, after the parser of that
\* run has finished.
C21_ProbeReusable ==
    (ret # <<>> /\ ret.op = "pm_stop" /\ ret.res = "returned") =>
        /\ \A i \in 1..Len(ret.samples) : ret.samples[i] = ret.run
        /\ ret.how = "event" => ret.parsed

\* The same for the first run of an instance only.
FirstRunComplete ==
    (ret # <<>> /\ ret.op = "pm_stop" /\ ret.res = "returned" /\ ret.run = 1) =>
        /\ \A i \in 1..Len(ret.samples) : ret.samples[i] = ret.run
        /\ ret.how = "event" => ret.parsed

\* C26: when the effective user is not root, start() of PowermetricsProbe and of
\* PowertopProbe raises the EPERM error, and no powermetrics or powertop process, no
\* parser thread, no atexit function and no set of tracked ids exists.
C26_StartNeedsRoot ==
    euid # 0 =>
        /\ (ret # <<>> /\ ret.op \in {"start", "pm_start"}) =>
                (ret.res = "raised" /\ ret.err = "EPERM")
        /\ powertop = "none" /\ ~pt_energy_task /\ atexit_funcs = 0 /\ pt_pids = None
        /\ pm_runs = 0
        /\ \A g \in 1..MaxRuns : pm_helper[g] = "none" /\ pm_thread[g] = "none"

C26_Witness ==
    /\ euid # 0
    /\ ret # <<>>
    /\ ret.op = "start"
    /\ ret.err = "EPERM"
    /\ pt_state = "constructed"

\* C28: with several threads that construct tasks and call get_running() and
\* terminate_all() while tasks complete, no operation on the registry raises because
\* the registry changed under it, and every constructed task that has not completed
\* is in the registry.
C28_RegistryThreadSafe ==
    /\ \A t \in Threads : reg_op[t].res # "RuntimeError"
    /\ \A x \in Constructed \ completed_tasks : x \in ALL

\* The second half alone.
NoLiveTaskLost ==
    \A x \in Constructed \ completed_tasks : x \in ALL

\* C31: EnergyProfiler.run goes through its phases in a fixed order: a polling thread
\* runs, and the process of the task is spawned, only after start() has returned on
\* every probe; the polling threads are started before the process is spawned, so
\* that they poll while the task runs; stop() is called on a probe only after the
\* run of the task has ended and join() has been called on every polling thread.
C31_PhaseOrder ==
    [][/\ (\E p \in Probes : thr'[p] # thr[p]) =>
            (started = Probes /\ epc # "starting")
       /\ (epc = "threads" /\ epc' # "threads") => started = Probes
       /\ process' # process =>
            (epc = "task_run" /\ started = Probes /\ \A p \in Probes : thr[p] # "none")
       /\ (epc # "joining" /\ epc' = "joining") => (eidx' = 1 /\ pc' = "idle")
       /\ (epc # "stopping" /\ epc' = "stopping") => (epc = "joining" /\ eidx = NumProbes)
       /\ stopped' # stopped =>
            (stopped' = {} \/ (epc = "stopping" /\ pc = "idle"))]_vars

C31_Witness ==
    /\ stopped = Probes
    /\ started = Probes
    /\ elast.res = "returned"
    /\ \A p \in Probes : polled[p] > 0

\* The sum of the intervals of sample records.
RECURSIVE sum_interval(_)
sum_interval(recs) ==
    IF recs = <<>> THEN 0 ELSE Head(recs).interval + sum_interval(Tail(recs))

\* C32: the polling thread of a probe appends one record per poll() call, in the
\* order of the polls, and each record carries the time elapsed since the poll before
\* it (since the start timestamp for the first one): the intervals of the records sum
\* to the time from the start timestamp to the latest poll.
C32_IntervalsAreElapsed ==
    /\ Len(samples[1][1]) = polled[1]
    /\ sum_interval(samples[1][1]) * NsPerMs = start_ns
    /\ thr[1] = "sleep" =>
            sum_interval(samples[1][1]) * NsPerMs + (cur_ns - start_ns) = now_ns

C32_Witness ==
    /\ Len(samples[1][1]) = 2
    /\ samples[1][1][1].interval # samples[1][1][2].interval
    /\ samples[1][1][2].interval # interval

\* C33: get_running() returns exactly the tasks that are running at that time: every
\* task of the list has a spawned process that has not exited, and no completed and
\* no never-started task is in it.
C33_GetRunningIsRunning ==
    [][\A t \in Threads :
        (reg_op[t].pc = "cleaned" /\ reg_op[t].op = "get_running"
            /\ reg_op'[t].res = "returned") =>
                reg_op'[t].val = {x \in 1..MaxTasks : task_proc[x] = "running"}]_vars

\* C34: terminate_all(kill) never raises and sends SIGKILL when kill is true and
\* SIGTERM otherwise to every registered task that has not completed, descendants
\* included: afterwards no process of the tree of such a task is running.
C34_TerminateAll ==
    ret # <<>> =>
        /\ ret.res = "returned"
        /\ ret.sig = IF args.kill THEN "SIGKILL" ELSE "SIGTERM"
        /\ \A i \in DOMAIN args.tasks :
            LET x == args.tasks[i]
            IN  (x.completed = None /\ x.proc # None /\ Exists(args.ps, x.proc[1])) =>
                    \A q \in Descendants(args.ps, x.proc[1]) \cup {x.proc[1]} :
                        ~Running(ret.procs, q)

\* The same when no process exits on its own while the signals are sent.
TerminateAllNoRace ==
    (ret # <<>> /\ args.gone = {}) => C34_TerminateAll

\* C35: at every point of any sequence of start/poll/stop calls on a probe, the probe
\* has at most one helper process running.
C35_OneHelper ==
    /\ Cardinality({g \in 1..MaxRuns : pm_helper[g] = "running"}) <= 1
    /\ powertop = "running" => pt_energy_task

\* C36: whenever Task.completed is true the process of the task has exited and
\* exit_code is a number, after a normal wait, after a timeout and after any other
\* failure raised while waiting.
C36_CompletedMeansExited ==
    is_completed =>
        /\ exit_code # None
        /\ process # None
        /\ ~Running(procs, process[1])

\* The same up to the end of the first run() or run_async() of the Task.
CompletedMeansExitedFirstRun ==
    nruns <= 1 => C36_CompletedMeansExited

\* C37: the calls on an attached probe are start, then polls, then stop: poll() is
\* not called on a probe once the profiler has called stop() on it in that run.
C37_NoPollAfterStop ==
    [][\A p \in Probes : polled'[p] > polled[p] => p \notin stopped]_vars

\* C38: a probe that, as the Zero probe, returns from stop() one sample per poll()
\* call since its start() never makes the run fail with a sample-count mismatch.
C38_ZeroProbeNoMismatch ==
    [][(stop_ret' # NoStop /\ stop_ret'.kind = "seq"
            /\ Len(stop_ret'.v) = polled[stop_ret'.probe]) =>
                elast'.err # "ValueError"]_vars

\* C39: when stop() of the PowermetricsProbe returns, the powermetrics process of the
\* run has exited and the parser thread of the run has finished, on the first run and
\* on every later one, so that no sample is appended to the returned list afterwards.
C39_StopIsFinal ==
    (ret # <<>> /\ ret.op = "pm_stop" /\ ret.res = "returned") =>
        /\ pm_helper[ret.run] # "running"
        /\ ret.parsed

\* The same for the returns of stop() on the first run that did not time out.
StopIsFinalOnEvent ==
    (ret # <<>> /\ ret.op = "pm_stop" /\ ret.res = "returned" /\ ret.run = 1
        /\ ret.how = "event") =>
            /\ pm_helper[ret.run] # "running"
            /\ ret.parsed

\* C40: for a Task with an input path, the file run() opens for stdin is closed again
\* on every exit path of the run (normal completion, timeout, spawn failure): it is
\* not open once the task has completed or run has raised.
C40_StdinClosed ==
    (ret # <<>> /\ (ret.completed \/ ret.res = "raised")) => ret.stdin # "open"

\* The same on the paths on which run raises.
StdinClosedWhenRaised ==
    (ret # <<>> /\ ret.res = "raised") => ret.stdin # "open"

====
